---- MODULE Spec2Model ----
(***************************************************************************)
(* A model of LexicMap: the seed store searcher (kv.Searcher.Search), the  *)
(* varint pair codec it reads with, the index builder (buildAnIndex) and   *)
(* the query pipeline of Index.Search.                                     *)
(*                                                                         *)
(* Each part of the program has its own specification over its own group   *)
(* of variables; a specification leaves the other groups unchanged.        *)
(***************************************************************************)
EXTENDS Integers, Sequences, FiniteSets, TLC

VARIABLES
    \* ---- kv.Searcher and one call of Search
    scrFile,        \* the bytes of the kv-data file behind scr.fh
    scrIndexes,     \* scr.Indexes: per mask, interleaved (k-mer, offset)
    scrStored,      \* what the writer stored: per mask, the sorted k-mers
    scrPc,          \* position of the call
    scrKmer,        \* argument kmer
    scrM,           \* argument m
    scrLeft,        \* leftBound
    scrRight,       \* rightBound
    scrIdx,         \* which index (mask) of scr.Indexes the outer loop is at
    scrBegin,       \* begin
    scrEnd,         \* end
    scrI,           \* i
    scrPos,         \* read position of the file handle
    scrFirst,       \* first
    scrFound,       \* found
    scrOffsetK,     \* _offset
    scrResults,     \* *results
    scrErr,         \* the returned error
    \* ---- one encode/decode of the varint pair codec
    cdPc,           \* position: idle, encoded, decoded
    cdX,            \* first word given to PutUint64s
    cdY,            \* second word given to PutUint64s
    cdCtrl,         \* the control byte PutUint64s returned
    cdN,            \* the byte count PutUint64s returned
    cdBuf,          \* buf[0:n], the data bytes
    cdResult,       \* the words Uint64s returned
    cdN2,           \* the count Uint64s returned
    \* ---- location values: packed by the builder, parsed by the search
    pkPc,           \* position: build, search
    pkInputs,       \* the (batch, refIdx, pos, strand) of each appended location
    pkValues,       \* *values: the packed 64-bit values, as bit vectors
    pkNext,         \* how many values the anchor collector has taken
    pkParsed,       \* per taken value: what the search decoded from it
    pkMap,          \* *m: the result map, key -> (GenomeBatch, GenomeIndex, anchors)
    \* ---- buildAnIndex, step 3: the chunk writers
    ckPc,           \* position: loop, done, panic
    ckMasks,        \* opt.Masks (nMasks, the length of *datas)
    ckChunks,       \* opt.Chunks
    ckCPUs,         \* the capacity of tokens
    ckJ,            \* j
    ckRunning,      \* the started chunk goroutines: (chunk, begin, end)
    ckWritten,      \* the chunks handed to kv.WriteKVData: (chunk, begin, end)
    \* ---- Index.Search, step 3.1 and 3.2: prefilter, score, top N
    flPc,           \* position: filter, sorted, done
    flOpt,          \* the options: MaxMismatch, MinPrefix, MinSinglePrefix, TopN, and k
    flMap,          \* *m: per target, r.Subs
    flTodo,         \* the targets the loop over *m has not visited yet
    flRecycled,     \* the targets given back by RecycleSearchResult
    flRs,           \* *rs: the kept targets with their Score
    \* ---- Index.Search, step 3.3: the fragments of one HSP of a target
    alPc,           \* position: loop, done
    alGenome,       \* tSeq: SeqSizes, the contig interval, the strand rc
    alFrags,        \* *cr.Chains: the HSP fragments, in genome coordinates
    alNext,         \* how many fragments the loop has taken
    alISeq,         \* iSeq
    alISeqPre,      \* iSeqPre
    alChains2,      \* *crChains2
    alBounds,       \* *bounds, four numbers per kept fragment
    alSds,          \* *sds: the SimilarityDetails produced
    alHsp,          \* how many HSPs of the target the loop over *r.Chains has begun
    \* ---- buildAnIndex, steps 1 and 2: ingesters, collector, genome writer
    bdPc,           \* position of buildAnIndex: run, done, panic
    bdFiles,        \* files: per input file, whether it has a valid sequence
    bdCPUs,         \* opt.NumCPUs
    bdNextFile,     \* how many files the main loop has started
    bdIng,          \* per file, its ingester: position and the Genome it holds
    bdObjs,         \* the Genome objects with their mask output: content, dirty
    bdPool,         \* genome.PoolGenome and the mask result pool: the free objects
    bdGenomes,      \* the channel genomes
    bdGenomesClosed,\* whether genomes is closed
    bdGenomesW,     \* the channel genomesW
    bdGenomesWClosed,\* whether genomesW is closed
    bdColPc,        \* position of the collector: recv, send, wait, done
    bdColObj,       \* refseq of the collector
    bdRefIdx,       \* refIdx
    bdTasks,        \* the running accumulation tasks of the collector
    bdDatas,        \* *datas: per mask, the (kmer, value) entries appended
    bdWriter,       \* the genome writer: position and its refseq
    bdReceived,     \* the files whose records the collector received, in order
    bdWritten,      \* the files whose records the genome writer wrote, in order
    \* ---- Index.Search calls sharing the chunk searchers of one Index
    tkPc,           \* position of the process: run, exited
    tkTokens,       \* len(idx.searcherTokens[i]), per chunk searcher
    tkCall,         \* per call: idle, fanout
    tkTask,         \* per call and chunk: where the fan-out task stands
    tkCh,           \* per call: len(ch), the result lists sent and not yet collected
    tkCalls,        \* per call slot: how many calls have returned
    \* ---- one call of Chainer2.Chain
    c2Pc,           \* position of the call: score, backtrack, done
    c2Opt,          \* ce.options
    c2Subs,         \* *subs: the anchors, sorted
    c2I,            \* i of the scoring loop
    c2Maxscores,    \* maxscores
    c2MaxscoresIdxs,\* maxscoresIdxs
    c2M,            \* M: the biggest score the scoring loop has seen
    c2Mi,           \* Mi: the anchor that has it
    c2Paths,        \* *paths: the Chain2Results
    c2Bounds,       \* bounds: the 4-tuples appended, in order
    c2Ret,          \* the integers returned after paths
    c2Pool2,        \* poolChain2: the Chain2Result objects put back, the last put last
    c2Pool,         \* poolChain: the Chain2Result objects put into it
    c2Taken,        \* the identities of the objects this call took from poolChain2
    c2NextId,       \* the identity of the next object poolChain2 makes with New
    c2Calls,        \* how many calls of Chain have begun
    \* ---- one call of ClearSubstrPairs
    csPc,           \* position: call, done
    csSubs,         \* *subs when the call begins
    csK,            \* k
    csOut,          \* *subs when the call returns
    \* ---- buildAnIndex after its collector: the chunk files, the info file, the progress bar
    fnPc,           \* position of buildAnIndex itself
    fnVerbose,      \* opt.Verbose
    fnChunks,       \* opt.Chunks
    fnJ,            \* j of the loop that starts the chunk writers
    fnChunkTasks,   \* the chunk writers that are running
    fnChunkFiles,   \* the chunk files written
    fnInfo,         \* the info writer: none, run, done
    fnDuration,     \* how many durations chDuration holds
    fnDurationClosed,\* close(chDuration) was called
    fnProgress,     \* the progress task: none, recv, done
    fnBar,          \* how often the bar was incremented
    \* ---- one call of Index.Search with its tasks
    saPc,           \* position of Index.Search itself
    saCPUs,         \* idx.opt.NumCPUs
    saHasRdrs,      \* idx.hasGenomeRdrs
    saPool,         \* idx.poolGenomeRdrs: per batch, the readers in the channel
    saPool0,        \* idx.poolGenomeRdrs when the call began
    saOpen,         \* how many tokens idx.openFileTokens holds
    saOpen0,        \* how many it held when the call began
    saOpenCap,      \* cap(idx.openFileTokens)
    saLoops,        \* per searcher: its Search does not return
    saSearcher,     \* per searcher, the position of its task
    saSTokens,      \* per searcher, what idx.searcherTokens[iS] holds
    saCh,           \* how many results ch holds
    saChClosed,     \* close(ch) was called
    saHits,         \* how many results the first collector has taken
    saCol,          \* the two collectors: none, recv, signal, done
    saDone,         \* per collector, how often main received its done
    saTargets,      \* *rs: per surviving target its batch and what becomes of it
    saNext,         \* how many alignment tasks were started
    saTask,         \* per target, the position of its task and the reader it holds
    saTokens,       \* how many tokens the channel tokens holds
    saCh2,          \* how many results ch2 holds
    saCh2Closed,    \* close(ch2) was called
    saRs2           \* len(*rs2)

scrVars == <<scrFile, scrIndexes, scrStored, scrPc, scrKmer, scrM, scrLeft,
             scrRight, scrIdx, scrBegin, scrEnd, scrI, scrPos, scrFirst,
             scrFound, scrOffsetK, scrResults, scrErr>>

cdVars == <<cdPc, cdX, cdY, cdCtrl, cdN, cdBuf, cdResult, cdN2>>

pkVars == <<pkPc, pkInputs, pkValues, pkNext, pkParsed, pkMap>>

ckVars == <<ckPc, ckMasks, ckChunks, ckCPUs, ckJ, ckRunning, ckWritten>>

flVars == <<flPc, flOpt, flMap, flTodo, flRecycled, flRs>>

alVars == <<alPc, alGenome, alFrags, alNext, alISeq, alISeqPre, alChains2,
            alBounds, alSds, alHsp>>

bdVars == <<bdPc, bdFiles, bdCPUs, bdNextFile, bdIng, bdObjs, bdPool,
            bdGenomes, bdGenomesClosed, bdGenomesW, bdGenomesWClosed,
            bdColPc, bdColObj, bdRefIdx, bdTasks, bdDatas, bdWriter,
            bdReceived, bdWritten>>

tkVars == <<tkPc, tkTokens, tkCall, tkTask, tkCh, tkCalls>>

c2Vars == <<c2Pc, c2Opt, c2Subs, c2I, c2Maxscores, c2MaxscoresIdxs, c2M,
            c2Mi, c2Paths, c2Bounds, c2Ret, c2Pool2, c2Pool, c2Taken,
            c2NextId, c2Calls>>

csVars == <<csPc, csSubs, csK, csOut>>

fnVars == <<fnPc, fnVerbose, fnChunks, fnJ, fnChunkTasks, fnChunkFiles,
            fnInfo, fnDuration, fnDurationClosed, fnProgress, fnBar>>

saVars == <<saPc, saCPUs, saHasRdrs, saPool, saPool0, saOpen, saOpen0,
            saOpenCap, saLoops, saSearcher, saSTokens, saCh, saChClosed,
            saHits, saCol, saDone, saTargets, saNext, saTask, saTokens,
            saCh2, saCh2Closed, saRs2>>

vars == <<scrVars, cdVars, pkVars, ckVars, flVars, alVars, bdVars, tkVars,
          c2Vars, csVars, fnVars, saVars>>

\* ---- a part that is not running: its variables rest at these values
ScrOff ==
    /\ scrFile = 0
    /\ scrIndexes = 0
    /\ scrStored = 0
    /\ scrPc = "off"
    /\ scrKmer = 0
    /\ scrM = 0
    /\ scrLeft = 0
    /\ scrRight = 0
    /\ scrIdx = 0
    /\ scrBegin = 0
    /\ scrEnd = 0
    /\ scrI = 0
    /\ scrPos = 0
    /\ scrFirst = 0
    /\ scrFound = 0
    /\ scrOffsetK = 0
    /\ scrResults = 0
    /\ scrErr = 0

CodecOff ==
    /\ cdPc = "off"
    /\ cdX = 0
    /\ cdY = 0
    /\ cdCtrl = 0
    /\ cdN = 0
    /\ cdBuf = 0
    /\ cdResult = 0
    /\ cdN2 = 0

PackOff ==
    /\ pkPc = "off"
    /\ pkInputs = 0
    /\ pkValues = 0
    /\ pkNext = 0
    /\ pkParsed = 0
    /\ pkMap = 0

ChunksOff ==
    /\ ckPc = "off"
    /\ ckMasks = 0
    /\ ckChunks = 0
    /\ ckCPUs = 0
    /\ ckJ = 0
    /\ ckRunning = 0
    /\ ckWritten = 0

FilterOff ==
    /\ flPc = "off"
    /\ flOpt = 0
    /\ flMap = 0
    /\ flTodo = 0
    /\ flRecycled = 0
    /\ flRs = 0

AlignOff ==
    /\ alPc = "off"
    /\ alGenome = 0
    /\ alFrags = 0
    /\ alNext = 0
    /\ alISeq = 0
    /\ alISeqPre = 0
    /\ alChains2 = 0
    /\ alBounds = 0
    /\ alSds = 0
    /\ alHsp = 0

BuildOff ==
    /\ bdPc = "off"
    /\ bdFiles = 0
    /\ bdCPUs = 0
    /\ bdNextFile = 0
    /\ bdIng = 0
    /\ bdObjs = 0
    /\ bdPool = 0
    /\ bdGenomes = 0
    /\ bdGenomesClosed = 0
    /\ bdGenomesW = 0
    /\ bdGenomesWClosed = 0
    /\ bdColPc = "off"
    /\ bdColObj = 0
    /\ bdRefIdx = 0
    /\ bdTasks = 0
    /\ bdDatas = 0
    /\ bdWriter = 0
    /\ bdReceived = 0
    /\ bdWritten = 0

TokensOff ==
    /\ tkPc = "off"
    /\ tkTokens = 0
    /\ tkCall = 0
    /\ tkTask = 0
    /\ tkCh = 0
    /\ tkCalls = 0

Chain2Off ==
    /\ c2Pc = "off"
    /\ c2Opt = 0
    /\ c2Subs = 0
    /\ c2I = 0
    /\ c2Maxscores = 0
    /\ c2MaxscoresIdxs = 0
    /\ c2M = 0
    /\ c2Mi = 0
    /\ c2Paths = 0
    /\ c2Bounds = 0
    /\ c2Ret = 0
    /\ c2Pool2 = 0
    /\ c2Pool = 0
    /\ c2Taken = 0
    /\ c2NextId = 0
    /\ c2Calls = 0

ClearOff ==
    /\ csPc = "off"
    /\ csSubs = 0
    /\ csK = 0
    /\ csOut = 0

FinishOff ==
    /\ fnPc = "off"
    /\ fnVerbose = 0
    /\ fnChunks = 0
    /\ fnJ = 0
    /\ fnChunkTasks = 0
    /\ fnChunkFiles = 0
    /\ fnInfo = 0
    /\ fnDuration = 0
    /\ fnDurationClosed = 0
    /\ fnProgress = 0
    /\ fnBar = 0

SearchAllOff ==
    /\ saPc = "off"
    /\ saCPUs = 0
    /\ saHasRdrs = 0
    /\ saPool = 0
    /\ saPool0 = 0
    /\ saOpen = 0
    /\ saOpen0 = 0
    /\ saOpenCap = 0
    /\ saLoops = 0
    /\ saSearcher = 0
    /\ saSTokens = 0
    /\ saCh = 0
    /\ saChClosed = 0
    /\ saHits = 0
    /\ saCol = 0
    /\ saDone = 0
    /\ saTargets = 0
    /\ saNext = 0
    /\ saTask = 0
    /\ saTokens = 0
    /\ saCh2 = 0
    /\ saCh2Closed = 0
    /\ saRs2 = 0

\* ---- the variables of all the other parts, for each part
notScr == <<cdVars, pkVars, ckVars, flVars, alVars, bdVars, tkVars, c2Vars,
            csVars, fnVars, saVars>>

NotScrOff ==
    /\ CodecOff
    /\ PackOff
    /\ ChunksOff
    /\ FilterOff
    /\ AlignOff
    /\ BuildOff
    /\ TokensOff
    /\ Chain2Off
    /\ ClearOff
    /\ FinishOff
    /\ SearchAllOff

notCodec == <<scrVars, pkVars, ckVars, flVars, alVars, bdVars, tkVars,
              c2Vars, csVars, fnVars, saVars>>

NotCodecOff ==
    /\ ScrOff
    /\ PackOff
    /\ ChunksOff
    /\ FilterOff
    /\ AlignOff
    /\ BuildOff
    /\ TokensOff
    /\ Chain2Off
    /\ ClearOff
    /\ FinishOff
    /\ SearchAllOff

notPack == <<scrVars, cdVars, ckVars, flVars, alVars, bdVars, tkVars,
             c2Vars, csVars, fnVars, saVars>>

NotPackOff ==
    /\ ScrOff
    /\ CodecOff
    /\ ChunksOff
    /\ FilterOff
    /\ AlignOff
    /\ BuildOff
    /\ TokensOff
    /\ Chain2Off
    /\ ClearOff
    /\ FinishOff
    /\ SearchAllOff

notChunks == <<scrVars, cdVars, pkVars, flVars, alVars, bdVars, tkVars,
               c2Vars, csVars, fnVars, saVars>>

NotChunksOff ==
    /\ ScrOff
    /\ CodecOff
    /\ PackOff
    /\ FilterOff
    /\ AlignOff
    /\ BuildOff
    /\ TokensOff
    /\ Chain2Off
    /\ ClearOff
    /\ FinishOff
    /\ SearchAllOff

notFilter == <<scrVars, cdVars, pkVars, ckVars, alVars, bdVars, tkVars,
               c2Vars, csVars, fnVars, saVars>>

NotFilterOff ==
    /\ ScrOff
    /\ CodecOff
    /\ PackOff
    /\ ChunksOff
    /\ AlignOff
    /\ BuildOff
    /\ TokensOff
    /\ Chain2Off
    /\ ClearOff
    /\ FinishOff
    /\ SearchAllOff

notAlign == <<scrVars, cdVars, pkVars, ckVars, flVars, bdVars, tkVars,
              c2Vars, csVars, fnVars, saVars>>

NotAlignOff ==
    /\ ScrOff
    /\ CodecOff
    /\ PackOff
    /\ ChunksOff
    /\ FilterOff
    /\ BuildOff
    /\ TokensOff
    /\ Chain2Off
    /\ ClearOff
    /\ FinishOff
    /\ SearchAllOff

notBuild == <<scrVars, cdVars, pkVars, ckVars, flVars, alVars, tkVars,
              c2Vars, csVars, fnVars, saVars>>

NotBuildOff ==
    /\ ScrOff
    /\ CodecOff
    /\ PackOff
    /\ ChunksOff
    /\ FilterOff
    /\ AlignOff
    /\ TokensOff
    /\ Chain2Off
    /\ ClearOff
    /\ FinishOff
    /\ SearchAllOff

notTokens == <<scrVars, cdVars, pkVars, ckVars, flVars, alVars, bdVars,
               c2Vars, csVars, fnVars, saVars>>

NotTokensOff ==
    /\ ScrOff
    /\ CodecOff
    /\ PackOff
    /\ ChunksOff
    /\ FilterOff
    /\ AlignOff
    /\ BuildOff
    /\ Chain2Off
    /\ ClearOff
    /\ FinishOff
    /\ SearchAllOff

notChain2 == <<scrVars, cdVars, pkVars, ckVars, flVars, alVars, bdVars,
               tkVars, csVars, fnVars, saVars>>

NotChain2Off ==
    /\ ScrOff
    /\ CodecOff
    /\ PackOff
    /\ ChunksOff
    /\ FilterOff
    /\ AlignOff
    /\ BuildOff
    /\ TokensOff
    /\ ClearOff
    /\ FinishOff
    /\ SearchAllOff

notClear == <<scrVars, cdVars, pkVars, ckVars, flVars, alVars, bdVars,
              tkVars, c2Vars, fnVars, saVars>>

NotClearOff ==
    /\ ScrOff
    /\ CodecOff
    /\ PackOff
    /\ ChunksOff
    /\ FilterOff
    /\ AlignOff
    /\ BuildOff
    /\ TokensOff
    /\ Chain2Off
    /\ FinishOff
    /\ SearchAllOff

notFinish == <<scrVars, cdVars, pkVars, ckVars, flVars, alVars, bdVars,
               tkVars, c2Vars, csVars, saVars>>

NotFinishOff ==
    /\ ScrOff
    /\ CodecOff
    /\ PackOff
    /\ ChunksOff
    /\ FilterOff
    /\ AlignOff
    /\ BuildOff
    /\ TokensOff
    /\ Chain2Off
    /\ ClearOff
    /\ SearchAllOff

notSearchAll == <<scrVars, cdVars, pkVars, ckVars, flVars, alVars, bdVars,
                  tkVars, c2Vars, csVars, fnVars>>

NotSearchAllOff ==
    /\ ScrOff
    /\ CodecOff
    /\ PackOff
    /\ ChunksOff
    /\ FilterOff
    /\ AlignOff
    /\ BuildOff
    /\ TokensOff
    /\ Chain2Off
    /\ ClearOff
    /\ FinishOff

\* ------------------------------------------------------------------------
\* Small helpers

Min(a, b) == IF a < b THEN a ELSE b

Max(a, b) == IF a > b THEN a ELSE b

RECURSIVE Pow(_, _)
Pow(b, e) == IF e = 0 THEN 1 ELSE b * Pow(b, e - 1)

RECURSIVE SeqSum(_)
SeqSum(s) == IF s = <<>> THEN 0 ELSE Head(s) + SeqSum(Tail(s))

\* the elements of a finite set of integers in ascending order
RECURSIVE SortedSeq(_)
SortedSeq(S) ==
    IF S = {} THEN <<>>
    ELSE LET x == CHOOSE y \in S : \A z \in S : y <= z
         IN <<x>> \o SortedSeq(S \ {x})

RECURSIVE Flatten(_)
Flatten(ss) == IF ss = <<>> THEN <<>> ELSE Head(ss) \o Flatten(Tail(ss))

\* bits.Len64 of a value below 2^31
RECURSIVE BitLen(_)
BitLen(x) == IF x = 0 THEN 0 ELSE 1 + BitLen(x \div 2)

\* x ^ y on values below 2^31
RECURSIVE Xor(_, _)
Xor(x, y) ==
    IF x = 0 /\ y = 0 THEN 0
    ELSE ((x + y) % 2) + 2 * Xor(x \div 2, y \div 2)

\* bits.LeadingZeros64
LeadingZeros64(x) == 64 - BitLen(x)

\* ------------------------------------------------------------------------
\* 64-bit words as their 8 bytes, least significant first

Zero64 == [i \in 1..8 |-> 0]

\* the word of a value below 2^31
LE8(n) ==
    [i \in 1..8 |-> IF i <= 3 THEN (n \div Pow(256, i - 1)) % 256
                    ELSE IF i = 4 THEN n \div Pow(256, 3)
                    ELSE 0]

\* the value of a word below 2^31
FromLE8(w) == w[1] + 256 * w[2] + 65536 * w[3] + 16777216 * w[4]

\* be.Uint64 / be.PutUint64 of the value payload: most significant byte first
BE8(n) == [i \in 1..8 |-> LE8(n)[9 - i]]

FromBE8(b) == FromLE8([i \in 1..8 |-> b[9 - i]])

\* ------------------------------------------------------------------------
\* Varint pair codec

\* number of bytes needed to hold a word, at least 1
ByteLength(w) ==
    IF \A i \in 1..8 : w[i] = 0 THEN 1
    ELSE CHOOSE n \in 1..8 : w[n] # 0 /\ \A i \in (n + 1)..8 : w[i] = 0

\* util.CtrlByte2ByteLengths: the 64-entry table from the low 6 bits of the
\* control byte to (len(x), len(y))
CtrlByte2ByteLengths(ctrl) == <<(ctrl \div 8) + 1, (ctrl % 8) + 1>>

\* util.PutUint64s: the control byte and the data bytes of (x, y)
PutUint64s(x, y) ==
    LET lx == ByteLength(x)
        ly == ByteLength(y)
    IN [ctrl |-> (lx - 1) * 8 + (ly - 1),
        n    |-> lx + ly,
        data |-> [i \in 1..(lx + ly) |-> IF i <= lx THEN x[i] ELSE y[i - lx]]]

\* util.Uint64s: the two words and the number of decoded bytes (0: failure)
Uint64s(ctrl, buf) ==
    LET lens == CtrlByte2ByteLengths(ctrl)
        lx   == lens[1]
        ly   == lens[2]
    IN IF Len(buf) # lx + ly
       THEN [vals |-> <<Zero64, Zero64>>, n |-> 0]
       ELSE [vals |-> <<[i \in 1..8 |-> IF i <= lx THEN buf[i] ELSE 0],
                        [i \in 1..8 |-> IF i <= ly THEN buf[lx + i] ELSE 0]>>,
             n    |-> lx + ly]

\* ---- one round of TestStreamVByte64: encode a pair, decode it again

\* a word of byte length n: top byte b, the bytes below it all f
WordOf(n, b, f) == [i \in 1..8 |-> IF i < n THEN f ELSE IF i = n THEN b ELSE 0]

\* the sample of 64-bit words: zero, and words of every byte length 1..8
WordChoices ==
    {Zero64} \cup {WordOf(n, b, f) : n \in 1..8, b \in {1, 255}, f \in {0, 170}}

InitCodec ==
    /\ cdPc = "idle"
    /\ cdX \in WordChoices
    /\ cdY \in WordChoices
    /\ cdCtrl = 0
    /\ cdN = 0
    /\ cdBuf = <<>>
    /\ cdResult = <<>>
    /\ cdN2 = 0
    /\ NotCodecOff

\* ctrl, n := PutUint64s(buf, test[0], test[1])
CodecEncode ==
    /\ cdPc = "idle"
    /\ LET e == PutUint64s(cdX, cdY)
       IN /\ cdCtrl' = e.ctrl
          /\ cdN' = e.n
          /\ cdBuf' = e.data
    /\ cdPc' = "encoded"
    /\ UNCHANGED <<cdX, cdY, cdResult, cdN2>>
    /\ UNCHANGED notCodec

\* a decode handed one data byte too few: buf[0:n-1]
CodecDecodeShortBuf ==
    /\ cdPc = "encoded"
    /\ LET d == Uint64s(cdCtrl, SubSeq(cdBuf, 1, cdN - 1))
       IN /\ cdResult' = d.vals
          /\ cdN2' = d.n
    /\ cdPc' = "decoded"
    /\ UNCHANGED <<cdX, cdY, cdCtrl, cdN, cdBuf>>
    /\ UNCHANGED notCodec

\* result, n2 := Uint64s(ctrl, buf[0:n])
CodecDecode ==
    /\ cdPc = "encoded"
    /\ LET d == Uint64s(cdCtrl, cdBuf)
       IN /\ cdResult' = d.vals
          /\ cdN2' = d.n
    /\ cdPc' = "decoded"
    /\ UNCHANGED <<cdX, cdY, cdCtrl, cdN, cdBuf>>
    /\ UNCHANGED notCodec

NextCodec == CodecEncode \/ CodecDecode

SpecCodec == InitCodec /\ [][NextCodec]_vars

\* len(x): the least number of bytes, at least one, that hold the word
MinBytes(w) ==
    CHOOSE n \in 1..8 : /\ \A i \in (n + 1)..8 : w[i] = 0
                        /\ \A m \in 1..(n - 1) : \E i \in (m + 1)..8 : w[i] # 0

\* C3: decoding what PutUint64s(buf, x, y) produced returns exactly (x, y)
\* and a non-zero count; the control byte has bits 6 and 7 clear, its two
\* 3-bit fields hold len(x)-1 and len(y)-1, and n = len(x) + len(y) with
\* each length in 1..8.
C3_CodecRoundTrip ==
    /\ cdPc \in {"encoded", "decoded"} =>
         /\ cdCtrl \in 0..63
         /\ MinBytes(cdX) \in 1..8 /\ MinBytes(cdY) \in 1..8
         /\ cdN = MinBytes(cdX) + MinBytes(cdY)
         /\ Len(cdBuf) = cdN
         /\ CtrlByte2ByteLengths(cdCtrl) = <<MinBytes(cdX), MinBytes(cdY)>>
    /\ cdPc = "decoded" =>
         /\ cdResult = <<cdX, cdY>>
         /\ cdN2 # 0

\* a pair of words of different lengths, one of them of the full 8 bytes,
\* has been encoded and decoded
C3_Witness ==
    /\ cdPc = "decoded"
    /\ MinBytes(cdX) = 8
    /\ MinBytes(cdY) = 2
    /\ cdX[1] = 170
    /\ cdN2 = 10

\* ------------------------------------------------------------------------
\* Seed store: the k-mer size, the stored data, the writer's file layout

\* the smallest k-mer size the index builder accepts
K == 3

\* scr.maxKmer = 1<<(k<<1) - 1
MaxKmerCode == Pow(4, K) - 1

\* the k-mers a mask's section may hold
KmerChoices == {1, 12, 23, 34, 45}

\* the most k-mers of one chunk file, over all its masks
MaxChunkKmers == 6

\* the value list stored for a k-mer of a mask: zero, one or two values
ValuesOf(sec, kmer) ==
    LET v == 64 * sec + kmer
    IN CASE kmer % 3 = 0 -> <<>>
         [] kmer % 3 = 1 -> <<v>>
         [] OTHER        -> <<v, v + 1000>>

\* the bytes of one pair of records: k-mer frame, value-length frame, values
PairFrame(k1, k2, hasK2, last, prev, v1, v2) ==
    LET enc  == PutUint64s(LE8(k1 - prev), LE8(k2 - k1))
        ctrl == enc.ctrl + (IF last THEN 128 ELSE 0) + (IF hasK2 THEN 0 ELSE 64)
        lens == PutUint64s(LE8(Len(v1)), LE8(Len(v2)))
    IN <<ctrl>> \o enc.data \o <<lens.ctrl>> \o lens.data
       \o Flatten([j \in 1..Len(v1) |-> BE8(v1[j])])
       \o Flatten([j \in 1..Len(v2) |-> BE8(v2[j])])

\* the section of one mask written at file offset off: its bytes and, for
\* every pair, the anchor (absolute k-mer, offset of the pair's frame)
RECURSIVE WriteSection(_, _, _, _)
WriteSection(kmers, sec, prev, off) ==
    IF kmers = <<>> THEN [bytes |-> <<>>, anchors |-> <<>>]
    ELSE LET hasK2 == Len(kmers) >= 2
             k1    == kmers[1]
             k2    == IF hasK2 THEN kmers[2] ELSE k1
             rest  == IF hasK2 THEN SubSeq(kmers, 3, Len(kmers)) ELSE <<>>
             fr    == PairFrame(k1, k2, hasK2, rest = <<>>, prev,
                                ValuesOf(sec, k1),
                                IF hasK2 THEN ValuesOf(sec, k2) ELSE <<>>)
             more  == WriteSection(rest, sec, k2, off + Len(fr))
         IN [bytes   |-> fr \o more.bytes,
             anchors |-> <<<<k1, off>>>> \o more.anchors]

\* kv.WriteKVData: the file of a chunk and every section's anchors
RECURSIVE WriteKVData(_, _, _)
WriteKVData(stored, sec, off) ==
    IF sec > Len(stored) THEN [bytes |-> <<>>, anchors |-> <<>>]
    ELSE LET s    == WriteSection(stored[sec], sec, 0, off)
             more == WriteKVData(stored, sec + 1, off + Len(s.bytes))
         IN [bytes   |-> s.bytes \o more.bytes,
             anchors |-> <<s.anchors>> \o more.anchors]

\* the index of one mask: the chosen anchors, k-mers and offsets interleaved
IndexOf(anchors, sel) ==
    Flatten([j \in 1..Cardinality(sel) |-> anchors[SortedSeq(sel)[j]]])

NumPairs(kmers) == (Len(kmers) + 1) \div 2

\* the sections a chunk may hold: at least two pairs each
SectionChoices ==
    {SortedSeq(S) : S \in {T \in SUBSET KmerChoices : Cardinality(T) > 2}}

ChunkChoices ==
    UNION {{st \in [1..n -> SectionChoices] :
               SeqSum([j \in 1..n |-> Len(st[j])]) <= MaxChunkKmers} :
           n \in 1..(MaxChunkKmers \div 3)}

\* the anchors an index may keep: the first pair and at least one more
AnchorChoices(kmers) ==
    {A \in SUBSET (1..NumPairs(kmers)) : 1 \in A /\ Cardinality(A) >= 2}

\* ------------------------------------------------------------------------
\* kv.Searcher.Search

\* io.ReadFull(r, buf[:n]) at read position pos
ReadFull(file, pos, n) ==
    IF n = 0 THEN [err |-> "nil", bytes |-> <<>>]
    ELSE IF pos + n <= Len(file)
         THEN [err |-> "nil", bytes |-> SubSeq(file, pos + 1, pos + n)]
    ELSE IF pos >= Len(file) THEN [err |-> "EOF", bytes |-> <<>>]
    ELSE [err |-> "ErrUnexpectedEOF", bytes |-> <<>>]

\* the loops "for j = 0; j < lenVal; j++" reading 8 bytes each
RECURSIVE ReadValues(_, _, _)
ReadValues(file, pos, n) ==
    IF n = 0 THEN [err |-> "nil", pos |-> pos, vals |-> <<>>]
    ELSE LET r == ReadFull(file, pos, 8)
         IN IF r.err # "nil" THEN [err |-> r.err, pos |-> pos, vals |-> <<>>]
            ELSE LET more == ReadValues(file, pos + 8, n - 1)
                 IN [err  |-> more.err,
                     pos  |-> more.pos,
                     vals |-> <<FromBE8(r.bytes)>> \o more.vals]

\* m after "if m < 1 || m > k { m = k }"
EffectiveM(m) == IF m < 1 \/ m > K THEN K ELSE m

\* leftBound and rightBound of the scope
LeftBound(kmer, m) ==
    IF K > EffectiveM(m)
    THEN kmer - (kmer % Pow(2, 2 * (K - EffectiveM(m))))
    ELSE kmer

\* rightBound without clearing the suffix bits of kmer first
RightBoundSuffixKept(kmer, m) ==
    IF K > EffectiveM(m)
    THEN kmer + (Pow(2, 2 * (K - EffectiveM(m))) - 1)
    ELSE kmer

RightBound(kmer, m) ==
    IF K > EffectiveM(m)
    THEN LET suffix2 == 2 * (K - EffectiveM(m))
         IN (kmer \div Pow(2, suffix2)) * Pow(2, suffix2) + (Pow(2, suffix2) - 1)
    ELSE kmer

\* uint8(bits.LeadingZeros64(kmer^kmer1)>>1) + k - 32, in 8 bits
LenPrefixOf(kmer, kmer1) ==
    ((LeadingZeros64(Xor(kmer, kmer1)) \div 2) + K + 256 - 32) % 256

\* index[j] of the Go slice (0-based)
At(index, j) == index[j + 1]

SearchResultOf(sec, kmer, kmer1, vals) ==
    [Kmer |-> kmer1, LenPrefix |-> LenPrefixOf(kmer, kmer1), Values |-> vals,
     sec |-> sec]

ScanFail(e) ==
    [err |-> e, brk |-> TRUE, pos |-> 0, offK |-> 0, found |-> FALSE,
     add |-> <<>>]

\* the rest of one iteration of the scan loop, from the value-length frame
\* on: kmer1 and kmer2 are decoded and kmer1 <= rightBound
ScanValues(file, sec, pos, found, kmer, left, right, kmer1, kmer2, lastPair, hasKmer2) ==
    LET rc == ReadFull(file, pos, 1)
    IN IF rc.err # "nil" THEN ScanFail(rc.err)
       ELSE IF rc.bytes[1] > 63 THEN ScanFail("panic")
       ELSE
       LET lens == CtrlByte2ByteLengths(rc.bytes[1])
           rd   == ReadFull(file, pos + 1, lens[1] + lens[2])
       IN IF rd.err # "nil" THEN ScanFail(rd.err)
          ELSE
          LET dec == Uint64s(rc.bytes[1], rd.bytes)
          IN IF dec.n = 0 THEN ScanFail("ErrBrokenFile")
             ELSE
             LET lenVal1 == FromLE8(dec.vals[1])
                 lenVal2 == FromLE8(dec.vals[2])
                 r1      == ReadValues(file, pos + 1 + lens[1] + lens[2], lenVal1)
                 add1    == IF found /\ kmer1 >= left
                            THEN <<SearchResultOf(sec, kmer, kmer1, r1.vals)>>
                            ELSE <<>>
             IN IF r1.err # "nil" THEN ScanFail(r1.err)
                ELSE IF kmer2 > right \/ (lastPair /\ ~hasKmer2)
                THEN [err |-> "nil", brk |-> TRUE, pos |-> r1.pos,
                      offK |-> kmer2, found |-> found, add |-> add1]
                ELSE
                LET r2   == ReadValues(file, r1.pos, lenVal2)
                    add2 == IF found
                            THEN <<SearchResultOf(sec, kmer, kmer2, r2.vals)>>
                            ELSE <<>>
                IN IF r2.err # "nil" THEN ScanFail(r2.err)
                   ELSE [err |-> "nil", brk |-> lastPair, pos |-> r2.pos,
                         offK |-> kmer2, found |-> found, add |-> add1 \o add2]

\* whether a pair with these two k-mers sets found
FoundNow(found, kmer1, kmer2, left) ==
    found \/ kmer1 >= left \/ kmer2 >= left

\* one iteration of the scan loop "for { read the control byte ... }"
ScanIter(file, index, sec, i, pos, first, found, offK, kmer, left, right) ==
    LET rc == ReadFull(file, pos, 1)
    IN IF rc.err # "nil" THEN ScanFail(rc.err)
       ELSE
       LET lastPair == (rc.bytes[1] \div 128) % 2 = 1
           hasKmer2 == (rc.bytes[1] \div 64) % 2 = 0
           ctrlByte == rc.bytes[1] % 64
           lens     == CtrlByte2ByteLengths(ctrlByte)
           rd       == ReadFull(file, pos + 1, lens[1] + lens[2])
       IN IF rd.err # "nil" THEN ScanFail(rd.err)
          ELSE
          LET dec == Uint64s(ctrlByte, rd.bytes)
          IN IF dec.n = 0 THEN ScanFail("ErrBrokenFile")
             ELSE
             LET kmer1 == IF first THEN At(index, i)
                          ELSE FromLE8(dec.vals[1]) + offK
                 kmer2 == kmer1 + FromLE8(dec.vals[2])
             IN IF kmer1 > right
                THEN [err |-> "nil", brk |-> TRUE,
                      pos |-> pos + 1 + lens[1] + lens[2],
                      offK |-> kmer2, found |-> found, add |-> <<>>]
                ELSE ScanValues(file, sec, pos + 1 + lens[1] + lens[2],
                                FoundNow(found, kmer1, kmer2, left),
                                kmer, left, right, kmer1, kmer2,
                                lastPair, hasKmer2)

\* one iteration of the anchor binary search: the new begin and end
BinarySearchIter(index, begin, end, left) ==
    LET mid    == begin + ((end - begin) \div 2)
        middle == IF mid % 2 = 1 THEN mid - 1 ELSE mid
    IN IF left < At(index, middle)
       THEN [begin |-> begin, end |-> middle]
       ELSE [begin |-> middle, end |-> end]

\* ---- the state of a searcher over a chunk file, before any call
InitSearch ==
    /\ \E st \in ChunkChoices :
         \E sel \in [1..Len(st) -> SUBSET (1..NumPairs(Flatten(st)))] :
            /\ \A j \in 1..Len(st) : sel[j] \in AnchorChoices(st[j])
            /\ scrStored = st
            /\ scrFile = WriteKVData(st, 1, 0).bytes
            /\ scrIndexes =
                 [j \in 1..Len(st) |->
                     IndexOf(WriteKVData(st, 1, 0).anchors[j], sel[j])]
    /\ scrPc = "idle"
    /\ scrKmer = 0
    /\ scrM = 0
    /\ scrLeft = 0
    /\ scrRight = 0
    /\ scrIdx = 1
    /\ scrBegin = 0
    /\ scrEnd = 0
    /\ scrI = 0
    /\ scrPos = 0
    /\ scrFirst = FALSE
    /\ scrFound = FALSE
    /\ scrOffsetK = 0
    /\ scrResults = <<>>
    /\ scrErr = "nil"
    /\ NotScrOff

\* Search(kmer, m) up to the first index: the k-mer check and the scope
SearchEnter ==
    /\ scrPc = "idle"
    /\ \E kmer \in 0..(MaxKmerCode + 1), m \in 0..(K + 1) :
         /\ scrKmer' = kmer
         /\ scrM' = m
         /\ IF kmer > MaxKmerCode
            THEN /\ scrPc' = "done"
                 /\ scrErr' = "InvalidKmer"
                 /\ UNCHANGED <<scrLeft, scrRight, scrEnd>>
            ELSE /\ scrPc' = "bsearch"
                 /\ scrErr' = "nil"
                 /\ scrLeft' = LeftBound(kmer, m)
                 /\ scrRight' = RightBound(kmer, m)
                 /\ scrEnd' = Len(scrIndexes[1]) - 2
    /\ scrIdx' = 1
    /\ scrBegin' = 0
    /\ scrResults' = <<>>
    /\ UNCHANGED <<scrFile, scrIndexes, scrStored, scrI, scrPos, scrFirst,
                   scrFound, scrOffsetK>>
    /\ UNCHANGED notScr

\* one iteration of "find the nearest anchor"; on break, the Seek
BinarySearchStep ==
    /\ scrPc = "bsearch"
    /\ LET nx == BinarySearchIter(scrIndexes[scrIdx], scrBegin, scrEnd, scrLeft)
       IN /\ scrBegin' = nx.begin
          /\ scrEnd' = nx.end
          /\ IF nx.begin + 2 = nx.end
             THEN /\ scrPc' = "scan"
                  /\ scrI' = nx.begin
                  /\ scrPos' = At(scrIndexes[scrIdx], nx.begin + 1)
                  /\ scrFirst' = TRUE
                  /\ scrFound' = FALSE
             ELSE \* an iteration that changes neither begin nor end repeats
                  \* for ever: the call never returns
                  /\ scrPc' = IF nx.begin = scrBegin /\ nx.end = scrEnd
                              THEN "hang" ELSE "bsearch"
                  /\ UNCHANGED <<scrI, scrPos, scrFirst, scrFound>>
    /\ UNCHANGED <<scrFile, scrIndexes, scrStored, scrKmer, scrM, scrLeft,
                   scrRight, scrIdx, scrOffsetK, scrResults, scrErr>>
    /\ UNCHANGED notScr

\* one iteration of "check one by one"; on break, the next index or return
ScanStep ==
    /\ scrPc = "scan"
    /\ LET it == ScanIter(scrFile, scrIndexes[scrIdx], scrIdx, scrI, scrPos,
                          scrFirst, scrFound, scrOffsetK, scrKmer, scrLeft,
                          scrRight)
       IN IF it.err # "nil"
          THEN /\ scrPc' = "done"
               /\ scrErr' = it.err
               /\ scrResults' = <<>>
               /\ UNCHANGED <<scrIdx, scrBegin, scrEnd, scrPos, scrFirst,
                              scrFound, scrOffsetK>>
          ELSE /\ scrResults' = scrResults \o it.add
               /\ scrPos' = it.pos
               /\ scrOffsetK' = it.offK
               /\ scrFound' = it.found
               /\ scrFirst' = FALSE
               /\ UNCHANGED scrErr
               /\ IF ~it.brk
                  THEN /\ scrPc' = "scan"
                       /\ UNCHANGED <<scrIdx, scrBegin, scrEnd>>
                  ELSE IF scrIdx < Len(scrIndexes)
                  THEN /\ scrPc' = "bsearch"
                       /\ scrIdx' = scrIdx + 1
                       /\ scrBegin' = 0
                       /\ scrEnd' = Len(scrIndexes[scrIdx + 1]) - 2
                  ELSE /\ scrPc' = "done"
                       /\ UNCHANGED <<scrIdx, scrBegin, scrEnd>>
    /\ UNCHANGED <<scrFile, scrIndexes, scrStored, scrKmer, scrM, scrLeft,
                   scrRight, scrI>>
    /\ UNCHANGED notScr

NextSearch == SearchEnter \/ BinarySearchStep \/ ScanStep

SpecSearch == InitSearch /\ [][NextSearch]_vars

\* ---- what the claims about Search speak of

\* the number of leading 2-bit bases two k-mers share
RECURSIVE SharedBases(_, _, _)
SharedBases(a, b, n) ==
    IF n = 0 THEN 0
    ELSE IF (a \div Pow(4, n - 1)) % 4 = (b \div Pow(4, n - 1)) % 4
         THEN 1 + SharedBases(a, b, n - 1)
         ELSE 0

\* q with its low 2*(K - mm) bits cleared, and with those bits set
ScopeLow(q, mm) == (q \div Pow(4, K - mm)) * Pow(4, K - mm)

ScopeHigh(q, mm) == ScopeLow(q, mm) + Pow(4, K - mm) - 1

ClaimM(m) == IF 1 <= m /\ m <= K THEN m ELSE K

\* C1: every result of Search(q, m) with q < 4^k lies in [left, right], the
\* scope of the k-mers sharing m' leading bases with q, and its LenPrefix is
\* the number of leading bases it shares with q, which is at least m'.
C1_ResultsInScope ==
    scrKmer <= MaxKmerCode =>
        \A j \in 1..Len(scrResults) :
            LET r == scrResults[j]
            IN /\ ScopeLow(scrKmer, ClaimM(scrM)) <= r.Kmer
               /\ r.Kmer <= ScopeHigh(scrKmer, ClaimM(scrM))
               /\ r.LenPrefix = SharedBases(scrKmer, r.Kmer, K)
               /\ r.LenPrefix >= ClaimM(scrM)

\* a call with a true prefix scope (m < k) has returned two results, one of
\* them not the query itself
C1_Witness ==
    /\ scrPc = "done"
    /\ scrErr = "nil"
    /\ ClaimM(scrM) < K
    /\ Len(scrResults) >= 2
    /\ \E j \in 1..Len(scrResults) : scrResults[j].LenPrefix < K

\* the stored k-mers of a section that lie in the scope of the call
InScope(sec) ==
    {x \in {scrStored[sec][j] : j \in 1..Len(scrStored[sec])} :
        /\ ScopeLow(scrKmer, ClaimM(scrM)) <= x
        /\ x <= ScopeHigh(scrKmer, ClaimM(scrM))}

\* the results are exactly the stored records in scope, each once, with its
\* stored values
ExactResults ==
    /\ \A sec \in 1..Len(scrStored) :
         \A x \in InScope(sec) :
            Cardinality({j \in 1..Len(scrResults) :
                            /\ scrResults[j].sec = sec
                            /\ scrResults[j].Kmer = x}) = 1
    /\ \A j \in 1..Len(scrResults) :
         /\ scrResults[j].Kmer \in InScope(scrResults[j].sec)
         /\ scrResults[j].Values = ValuesOf(scrResults[j].sec, scrResults[j].Kmer)

\* C2: on a well-formed chunk file, Search(q, m) returns exactly one result
\* for each stored k-mer in [left, right], none for any other, each with
\* the stored value list: every call ends by returning that list.
C2_SearchReturnsExactResults ==
    (scrPc \in {"done", "hang"} /\ scrKmer <= MaxKmerCode) =>
        (scrPc = "done" /\ scrErr = "nil" /\ ExactResults)

\* the part of C2 the code keeps: a call that returns, returns exactly the
\* stored records in scope
SearchExactWhenReturned ==
    (scrPc = "done" /\ scrKmer <= MaxKmerCode) => (scrErr = "nil" /\ ExactResults)

\* ------------------------------------------------------------------------
\* Search on a seed file that ends prematurely

\* the most k-mers of the one-section chunk whose file is cut short
MaxTruncKmers == 4

\* the whole file of the stored chunk
FullFile == WriteKVData(scrStored, 1, 0).bytes

\* a searcher whose index was read in full and whose data file holds only
\* the first cut bytes of what the writer produced
InitTruncated ==
    /\ \E st \in {c \in ChunkChoices :
                    Len(c) = 1 /\ Len(c[1]) <= MaxTruncKmers} :
         \E sel \in AnchorChoices(st[1]) :
            \E cut \in 0..(Len(WriteKVData(st, 1, 0).bytes) - 1) :
                /\ scrStored = st
                /\ scrFile = SubSeq(WriteKVData(st, 1, 0).bytes, 1, cut)
                /\ scrIndexes = <<IndexOf(WriteKVData(st, 1, 0).anchors[1], sel)>>
    /\ scrPc = "idle"
    /\ scrKmer = 0
    /\ scrM = 0
    /\ scrLeft = 0
    /\ scrRight = 0
    /\ scrIdx = 1
    /\ scrBegin = 0
    /\ scrEnd = 0
    /\ scrI = 0
    /\ scrPos = 0
    /\ scrFirst = FALSE
    /\ scrFound = FALSE
    /\ scrOffsetK = 0
    /\ scrResults = <<>>
    /\ scrErr = "nil"
    /\ NotScrOff

SpecTruncated == InitTruncated /\ [][NextSearch]_vars

\* the call has returned, and not with the results of a completed scan
SearchFailed ==
    /\ scrPc = "done"
    /\ scrKmer <= MaxKmerCode
    /\ scrErr # "nil"

\* C11: when the seed data ends prematurely during Search (the file is a
\* proper prefix of the written one and the scan runs into its end), Search
\* reports the BrokenFile error and returns no result list.
C11_TruncationReportsBrokenFile ==
    (SearchFailed /\ Len(scrFile) < Len(FullFile)) =>
        (scrErr = "ErrBrokenFile" /\ scrResults = <<>>)

\* what the code does on a truncated file: the error of io.ReadFull is
\* returned as it is, with no result list
TruncationReturnsReadError ==
    (SearchFailed /\ Len(scrFile) < Len(FullFile)) =>
        (scrErr \in {"EOF", "ErrUnexpectedEOF"} /\ scrResults = <<>>)

\* a scan that had collected a result ran into the end of the file inside a
\* value payload
TruncatedInsideValues ==
    /\ SearchFailed
    /\ scrErr = "ErrUnexpectedEOF"
    /\ scrFound

\* ------------------------------------------------------------------------
\* Search over anchor indexes of any length

\* the anchors an index may keep: the first pair and any of the others
AnyAnchorChoices(kmers) == {A \in SUBSET (1..NumPairs(kmers)) : 1 \in A}

\* a searcher over a chunk of one mask whose index has one, two or three
\* entries
InitAnchors ==
    /\ \E st \in {c \in ChunkChoices : Len(c) = 1} :
         \E sel \in AnyAnchorChoices(st[1]) :
            /\ scrStored = st
            /\ scrFile = WriteKVData(st, 1, 0).bytes
            /\ scrIndexes = <<IndexOf(WriteKVData(st, 1, 0).anchors[1], sel)>>
    /\ scrPc = "idle"
    /\ scrKmer = 0
    /\ scrM = 0
    /\ scrLeft = 0
    /\ scrRight = 0
    /\ scrIdx = 1
    /\ scrBegin = 0
    /\ scrEnd = 0
    /\ scrI = 0
    /\ scrPos = 0
    /\ scrFirst = FALSE
    /\ scrFound = FALSE
    /\ scrOffsetK = 0
    /\ scrResults = <<>>
    /\ scrErr = "nil"
    /\ NotScrOff

SpecAnchors == InitAnchors /\ [][NextSearch]_vars

\* the number of (k-mer, offset) entries of the index being searched
NumAnchors == Len(scrIndexes[scrIdx]) \div 2

\* the entries (from 0) whose k-mer is <= left
AnchorsNotAbove(left) ==
    {j \in 0..(NumAnchors - 1) : At(scrIndexes[scrIdx], 2 * j) <= left}

\* the largest anchor whose k-mer is <= left, the first anchor when none is
NearestAnchor(left) ==
    IF AnchorsNotAbove(left) = {} THEN 0
    ELSE CHOOSE j \in AnchorsNotAbove(left) :
            \A h \in AnchorsNotAbove(left) : h <= j

\* the binary search has just ended and the file is positioned for the scan
AnchorSelected == scrPc = "scan" /\ scrFirst

\* C15: for every anchor index and every left bound, the binary search
\* selects the largest anchor whose k-mer is <= left (the first anchor when
\* none is), and the scan starts at that anchor's offset.
C15_NearestAnchorSelected ==
    AnchorSelected =>
        /\ scrI = 2 * NearestAnchor(scrLeft)
        /\ scrPos = At(scrIndexes[scrIdx], 2 * NearestAnchor(scrLeft) + 1)

\* what the binary search does select: the nearest anchor among all but
\* the last entry of the index
AnchorSelectedIsNearestButLast ==
    AnchorSelected =>
        /\ scrI = 2 * Min(NearestAnchor(scrLeft), Max(NumAnchors - 2, 0))
        /\ scrPos = At(scrIndexes[scrIdx], scrI + 1)

\* C16: the anchor binary search terminates for every index holding at
\* least one entry and every left bound, an index with exactly one or two
\* entries and a left bound below the first anchor's k-mer included: no
\* call is caught repeating the same iteration for ever.
C16_BinarySearchTerminates == scrPc # "hang"

\* where the binary search does end: an index of three entries or more,
\* or one of two entries with left not below the first anchor
BinarySearchEndsWhenLong ==
    scrPc = "hang" =>
        \/ NumAnchors = 1
        \/ NumAnchors = 2 /\ scrLeft < At(scrIndexes[scrIdx], 0)

\* ------------------------------------------------------------------------
\* Location values: buildAnIndex packs them, Index.Search parses them

\* the powers of two below 2^31
Pow2 == [i \in 0..30 |-> Pow(2, i)]

\* uint64(n) for 0 <= n < 2^31, as the bits 0..63
U64(n) == [i \in 0..63 |-> IF i < 31 THEN (n \div Pow2[i]) % 2 ELSE 0]

\* v << s and v >> s on 64 bits
Shl(v, s) == [i \in 0..63 |-> IF i >= s THEN v[i - s] ELSE 0]

Shr(v, s) == [i \in 0..63 |-> IF i + s <= 63 THEN v[i + s] ELSE 0]

Or64(a, b) == [i \in 0..63 |-> IF a[i] = 1 \/ b[i] = 1 THEN 1 ELSE 0]

And64(a, b) == [i \in 0..63 |-> IF a[i] = 1 /\ b[i] = 1 THEN 1 ELSE 0]

\* 2^n - 1 as a 64-bit word: 131071 is Ones64(17), 1073741823 is Ones64(30)
Ones64(n) == [i \in 0..63 |-> IF i < n THEN 1 ELSE 0]

\* int(v) of a word below 2^31
RECURSIVE BitsValue(_, _)
BitsValue(v, n) ==
    IF n = 0 THEN 0 ELSE v[n - 1] * Pow2[n - 1] + BitsValue(v, n - 1)

ToInt(v) == BitsValue(v, 31)

\* the location Mask() hands over: the position with the strand in bit 0
LocOf(pos, strand) == pos * 2 + strand

\* a packing that shifts the reference index by 29 instead of 30
PackValueRefShift29(batch, refIdx, loc) ==
    Or64(Or64(Shl(U64(batch), 47), Shl(And64(U64(refIdx), Ones64(17)), 29)),
         And64(U64(loc), Ones64(30)))

\* value = uint64(batch)<<47 | ((uint64(refIdx) & 131071) << 30)
\*         | (uint64(loc) & 1073741823)
PackValue(batch, refIdx, loc) ==
    Or64(Or64(Shl(U64(batch), 47), Shl(And64(U64(refIdx), Ones64(17)), 30)),
         And64(U64(loc), Ones64(30)))

\* parseKmerValue: int(v>>47), int(v<<17>>47), int(v<<34>>35), int(v&1)
parseKmerValue(v) ==
    <<ToInt(Shr(v, 47)), ToInt(Shr(Shl(v, 17), 47)), ToInt(Shr(Shl(v, 34), 35)),
      ToInt(And64(v, U64(1)))>>

\* the anchor collector's reading of one value
refBatchAndIdxOf(refpos) == Shr(refpos, 30)

posTOf(refpos) == ToInt(Shr(Shl(refpos, 34), 35))

rcTOf(refpos) == ToInt(And64(refpos, U64(1))) > 0

\* how many location values are appended
MaxPacked == 2

BatchChoices == {0, 1, 131071}

RefIdxChoices == {0, 131071}

PosChoices == {0, 268435457, 536870911}

InitPack ==
    /\ pkPc = "build"
    /\ pkInputs = <<>>
    /\ pkValues = <<>>
    /\ pkNext = 0
    /\ pkParsed = <<>>
    /\ pkMap = <<>>
    /\ NotPackOff

\* the accumulation task appends the value of one location
PackAppend ==
    /\ pkPc = "build"
    /\ Len(pkValues) < MaxPacked
    /\ \E batch \in BatchChoices, refIdx \in RefIdxChoices,
          pos \in PosChoices, strand \in {0, 1} :
         /\ pkInputs' = Append(pkInputs, [batch |-> batch, refIdx |-> refIdx,
                                          pos |-> pos, strand |-> strand])
         /\ pkValues' = Append(pkValues,
                               PackValue(batch, refIdx, LocOf(pos, strand)))
    /\ UNCHANGED <<pkPc, pkNext, pkParsed, pkMap>>
    /\ UNCHANGED notPack

\* the index is built; a search gets the values as sr.Values
PackSearch ==
    /\ pkPc = "build"
    /\ Len(pkValues) >= 1
    /\ pkPc' = "search"
    /\ UNCHANGED <<pkInputs, pkValues, pkNext, pkParsed, pkMap>>
    /\ UNCHANGED notPack

\* the position of a key in the result map, 0 if absent
MapSlot(m, key) ==
    IF \E j \in 1..Len(m) : m[j].key = key
    THEN CHOOSE j \in 1..Len(m) : m[j].key = key
    ELSE 0

\* "for _, refpos = range sr.Values": one value
PackCollect ==
    /\ pkPc = "search"
    /\ pkNext < Len(pkValues)
    /\ LET refpos == pkValues[pkNext + 1]
           key    == refBatchAndIdxOf(refpos)
           slot   == MapSlot(pkMap, key)
           sub    == [posT |-> posTOf(refpos), TRC |-> rcTOf(refpos)]
       IN /\ pkParsed' = Append(pkParsed,
                                [parsed |-> parseKmerValue(refpos),
                                 key |-> key, posT |-> posTOf(refpos),
                                 rcT |-> rcTOf(refpos)])
          /\ pkMap' =
               IF slot = 0
               THEN Append(pkMap,
                           [key |-> key,
                            GenomeBatch |-> ToInt(Shr(key, 17)),
                            GenomeIndex |-> ToInt(And64(key, Ones64(17))),
                            Subs |-> <<sub>>])
               ELSE [pkMap EXCEPT ![slot].Subs = Append(@, sub)]
    /\ pkNext' = pkNext + 1
    /\ UNCHANGED <<pkPc, pkInputs, pkValues>>
    /\ UNCHANGED notPack

NextPack == PackAppend \/ PackSearch \/ PackCollect

SpecPack == InitPack /\ [][NextPack]_vars

\* C4: a value packed from batch < 2^17, reference index < 2^17, position
\* < 2^29 and a strand bit decodes at search time to the same four fields,
\* by parseKmerValue and by the anchor collector; two values have the same
\* map key value>>30 exactly when their (batch, ref) pairs are equal, and
\* the key gives GenomeBatch = key>>17 and GenomeIndex = key & 131071.
C4_PackedValueDecodes ==
    /\ \A j \in 1..Len(pkParsed) :
         LET inp == pkInputs[j]
             p  == pkParsed[j]
             r  == pkMap[MapSlot(pkMap, p.key)]
         IN /\ p.parsed = <<inp.batch, inp.refIdx, inp.pos, inp.strand>>
            /\ p.posT = inp.pos
            /\ p.rcT = (inp.strand = 1)
            /\ r.GenomeBatch = inp.batch
            /\ r.GenomeIndex = inp.refIdx
    /\ \A i, j \in 1..Len(pkParsed) :
         (pkParsed[i].key = pkParsed[j].key) <=>
            (pkInputs[i].batch = pkInputs[j].batch
             /\ pkInputs[i].refIdx = pkInputs[j].refIdx)

\* two locations of the last genome of the last batch, at the largest
\* position on the reverse strand and at position 0, share one map entry
C4_Witness ==
    /\ Len(pkParsed) = 2
    /\ pkInputs[1] = [batch |-> 131071, refIdx |-> 131071, pos |-> 536870911,
                      strand |-> 1]
    /\ pkInputs[2].batch = 131071 /\ pkInputs[2].refIdx = 131071
    /\ pkInputs[2].pos = 0
    /\ Len(pkMap) = 1
    /\ Len(pkMap[1].Subs) = 2

\* ------------------------------------------------------------------------
\* buildAnIndex, step 3: one chunk writer per chunk of masks

\* the largest numbers of masks, chunks and threads looked at
MaxMasks == 9

MaxChunks == 6

MaxCPUs == 2

\* the options CheckIndexBuildingOptions accepts
MinMasks == 4

MinChunks == 1

ChunksLimit == 512

\* chunkSize := (nMasks + chunks - 1) / opt.Chunks
ChunkSizeOf(nMasks, chunks) == (nMasks + chunks - 1) \div chunks

\* begin and end of chunk j
ChunkBegin(j, nMasks, chunks) == j * ChunkSizeOf(nMasks, chunks)

ChunkEnd(j, nMasks, chunks) ==
    IF ChunkBegin(j, nMasks, chunks) + ChunkSizeOf(nMasks, chunks) > nMasks
    THEN nMasks
    ELSE ChunkBegin(j, nMasks, chunks) + ChunkSizeOf(nMasks, chunks)

\* (*datas)[begin:end] on a slice of length and capacity n is in range
SliceOk(begin, end, n) == 0 <= begin /\ begin <= end /\ end <= n

InitChunks ==
    /\ ckPc = "loop"
    /\ ckMasks \in MinMasks..MaxMasks
    /\ ckChunks \in MinChunks..Min(MaxChunks, ChunksLimit)
    /\ ckCPUs \in 1..MaxCPUs
    /\ ckJ = 0
    /\ ckRunning = {}
    /\ ckWritten = {}
    /\ NotChunksOff

\* one iteration of "for j = 0; j < chunks; j++": take a token, start the
\* goroutine of chunk j
ChunkStart ==
    /\ ckPc = "loop"
    /\ ckJ < ckChunks
    /\ Cardinality(ckRunning) < ckCPUs
    /\ ckRunning' = ckRunning \cup
                      {[chunk |-> ckJ,
                        begin |-> ChunkBegin(ckJ, ckMasks, ckChunks),
                        end   |-> ChunkEnd(ckJ, ckMasks, ckChunks)]}
    /\ ckJ' = ckJ + 1
    /\ UNCHANGED <<ckPc, ckMasks, ckChunks, ckCPUs, ckWritten>>
    /\ UNCHANGED notChunks

\* the goroutine of a chunk: slice the accumulator, write the file, give
\* the token back; a slice out of range panics and ends the program
ChunkWrite ==
    /\ ckPc = "loop"
    /\ \E g \in ckRunning :
         IF SliceOk(g.begin, g.end, ckMasks)
         THEN /\ ckWritten' = ckWritten \cup {g}
              /\ ckRunning' = ckRunning \ {g}
              /\ UNCHANGED ckPc
         ELSE /\ ckPc' = "panic"
              /\ UNCHANGED <<ckRunning, ckWritten>>
    /\ UNCHANGED <<ckMasks, ckChunks, ckCPUs, ckJ>>
    /\ UNCHANGED notChunks

\* wg.Wait() returns: all k-mer-value data are saved
ChunksDone ==
    /\ ckPc = "loop"
    /\ ckJ = ckChunks
    /\ ckRunning = {}
    /\ ckPc' = "done"
    /\ UNCHANGED <<ckMasks, ckChunks, ckCPUs, ckJ, ckRunning, ckWritten>>
    /\ UNCHANGED notChunks

NextChunks == ChunkStart \/ ChunkWrite \/ ChunksDone

SpecChunks == InitChunks /\ [][NextChunks]_vars

\* C6: for Masks >= 4 and 1 <= Chunks <= 512 every chunk range is
\* well-formed (begin <= end <= M), so that slicing the accumulator never
\* fails, and the ranges of the chunks partition the masks 0..M-1.
C6_ChunkRangesPartition ==
    /\ \A g \in ckRunning \cup ckWritten :
         g.begin <= g.end /\ g.end <= ckMasks
    /\ ckPc # "panic"
    /\ ckPc = "done" =>
         \A i \in 0..(ckMasks - 1) :
            Cardinality({g \in ckWritten : g.begin <= i /\ i < g.end}) = 1

\* what holds of the ranges whatever the options: the started chunks cover
\* every mask below the next begin exactly once
ChunksCoverOnce ==
    \A i \in 0..(ckMasks - 1) :
        Cardinality({g \in ckRunning \cup ckWritten :
                        g.begin <= i /\ i < g.end}) <= 1

\* ------------------------------------------------------------------------
\* Index.Search, steps 3.1 and 3.2: cleaning, prefilter, score, top N

\* the largest k, and the default MinPrefix and MinSinglePrefix
MaxK == 32

DefaultMinPrefix == 15

DefaultMinSinglePrefix == 20

\* how many targets the result map holds, and anchors a target has at most
MaxTargets == 2

MaxSubs == 2

\* the sample of anchors: lengths 15, 16 and 20 at query position 0 (each
\* nested in the longer ones) and lengths 16 and 20 at query position 40
SubChoices ==
    {[QBegin |-> 0, TBegin |-> 100, Len |-> 15, Mismatch |-> mm] : mm \in {0, 3}}
    \cup {[QBegin |-> 0, TBegin |-> 100, Len |-> 20, Mismatch |-> 0]}
    \cup {[QBegin |-> 40, TBegin |-> 140, Len |-> l, Mismatch |-> 0] :
            l \in {16, 20}}

SubRank(a) == a.QBegin * 1000 + a.Len * 10 + a.Mismatch

\* the anchor lists of a target as they arrive, up to their order
SubsChoices ==
    UNION {{s \in [1..n -> SubChoices] :
               \A i \in 1..(n - 1) : SubRank(s[i]) <= SubRank(s[i + 1])} :
           n \in 1..MaxSubs}

\* the order in which the sample lists the anchor lists of the targets
RECURSIVE SubsBefore(_, _)
SubsBefore(a, b) ==
    IF a = <<>> THEN TRUE
    ELSE IF b = <<>> THEN FALSE
    ELSE IF SubRank(Head(a)) # SubRank(Head(b))
         THEN SubRank(Head(a)) < SubRank(Head(b))
         ELSE SubsBefore(Tail(a), Tail(b))

\* the result maps of n targets, up to the names of the targets (the loop
\* over the map visits them in any order)
MapChoices(n) ==
    {m \in [1..n -> SubsChoices] :
        \A i \in 1..(n - 1) : SubsBefore(m[i], m[i + 1])}

MaxMismatchChoices == {-1, 2, MaxK - DefaultMinPrefix}

TopNChoices == {0, 1}

\* the less function of the sort in ClearSubstrPairs
SubLess(a, b) ==
    IF a.QBegin = b.QBegin
    THEN IF a.QBegin + a.Len = b.QBegin + b.Len
         THEN a.TBegin <= b.TBegin
         ELSE a.QBegin + a.Len > b.QBegin + b.Len
    ELSE a.QBegin < b.QBegin

\* the orders of the elements of s
Perms(s) ==
    {[i \in 1..Len(s) |-> s[p[i]]] :
        p \in {q \in [1..Len(s) -> 1..Len(s)] :
                  \A i, j \in 1..Len(s) : i # j => q[i] # q[j]}}

\* what the sort.Slice of ClearSubstrPairs may leave: no element stands
\* before one that is strictly less than it
SubSortOutcomes(s) ==
    {t \in Perms(s) :
        \A i, j \in 1..Len(t) :
            i < j => ~(SubLess(t[j], t[i]) /\ ~SubLess(t[i], t[j]))}

\* v lies in the region of p: the same or a nested anchor
SubNested(v, p) ==
    /\ v.QBegin + v.Len <= p.QBegin + p.Len
    /\ v.TBegin >= p.TBegin
    /\ v.TBegin + v.Len <= p.TBegin + p.Len

\* a check against the one anchor before v only
SubEmbeddedInLast(subs, v, j, k) ==
    j >= 1 /\ SubNested(v, subs[j])

\* the loop "for j >= 0" for v against subs[j], subs[j-1], ...
RECURSIVE SubEmbedded(_, _, _, _)
SubEmbedded(subs, v, j, k) ==
    IF j < 1 THEN FALSE
    ELSE IF subs[j].QBegin < v.QBegin + v.Len - k THEN FALSE
    ELSE IF SubNested(v, subs[j]) THEN TRUE
    ELSE SubEmbedded(subs, v, j - 1, k)

\* the sorted list without its marked elements
RECURSIVE SubsUnmarked(_, _, _)
SubsUnmarked(subs, i, k) ==
    IF i > Len(subs) THEN <<>>
    ELSE (IF i >= 2 /\ SubEmbedded(subs, subs[i], i - 1, k)
          THEN <<>> ELSE <<subs[i]>>) \o SubsUnmarked(subs, i + 1, k)

\* ClearSubstrPairs on an already sorted list
ClearSubstrPairs(sorted, k) ==
    IF Len(sorted) < 2 THEN sorted ELSE SubsUnmarked(sorted, 1, k)

\* sub.Len * sub.Len in uint8
LenSquared(len) == (len * len) % 256

\* r.Score after "for _, sub := range *r.Subs { r.Score += ... }"
RECURSIVE ScoreOf(_)
ScoreOf(subs) ==
    IF subs = <<>> THEN 0 ELSE LenSquared(Head(subs).Len) + ScoreOf(Tail(subs))

\* a mismatch check that is on for every MaxMismatch >= 0
checkMismatchNoUpperLimit(opt) == opt.MaxMismatch >= 0

\* checkMismatch := maxMismatch >= 0 && maxMismatch < K-int(idx.opt.MinPrefix)
checkMismatch(opt) ==
    opt.MaxMismatch >= 0 /\ opt.MaxMismatch < opt.K - opt.MinPrefix

\* whether the single-seed branch drops a target with these (cleaned) anchors
SingleSeedDropped(subs, opt) ==
    /\ Len(subs) = 1
    /\ IF checkMismatch(opt)
       THEN subs[1].Mismatch > opt.MaxMismatch
       ELSE subs[1].Len < opt.MinSinglePrefix

InitFilter ==
    /\ flPc = "filter"
    /\ \E mm \in MaxMismatchChoices, n \in TopNChoices :
         flOpt = [MaxMismatch |-> mm, MinPrefix |-> DefaultMinPrefix,
                  MinSinglePrefix |-> DefaultMinSinglePrefix, TopN |-> n,
                  K |-> MaxK]
    /\ \E n \in 1..MaxTargets : flMap \in MapChoices(n)
    /\ flTodo = DOMAIN flMap
    /\ flRecycled = {}
    /\ flRs = <<>>
    /\ NotFilterOff

\* one iteration of "for _, r := range *m"
FilterTarget ==
    /\ flPc = "filter"
    /\ \E r \in flTodo :
         \E sorted \in SubSortOutcomes(flMap[r]) :
            LET subs == ClearSubstrPairs(sorted, flOpt.K)
            IN /\ flMap' = [flMap EXCEPT ![r] = subs]
               /\ flTodo' = flTodo \ {r}
               /\ IF SingleSeedDropped(subs, flOpt)
                  THEN /\ flRecycled' = flRecycled \cup {r}
                       /\ UNCHANGED flRs
                  ELSE /\ flRs' = Append(flRs, [r |-> r, Score |-> ScoreOf(subs)])
                       /\ UNCHANGED flRecycled
    /\ UNCHANGED <<flPc, flOpt>>
    /\ UNCHANGED notFilter

ScoreGreater(a, b) == a.Score > b.Score

\* what sort.Slice(*rs, ...) may leave
ScoreSortOutcomes(s) ==
    {t \in Perms(s) :
        \A i, j \in 1..Len(t) : i < j => ~ScoreGreater(t[j], t[i])}

\* sort.Slice(*rs, ...) in descending order of the score
FilterSort ==
    /\ flPc = "filter"
    /\ flTodo = {}
    /\ flRs' \in ScoreSortOutcomes(flRs)
    /\ flPc' = "sorted"
    /\ UNCHANGED <<flOpt, flMap, flTodo, flRecycled>>
    /\ UNCHANGED notFilter

\* 3.2) only keep the top N targets
FilterTopN ==
    /\ flPc = "sorted"
    /\ IF flOpt.TopN > 0 /\ Len(flRs) > flOpt.TopN
       THEN /\ flRecycled' = flRecycled \cup
                               {flRs[i].r : i \in (flOpt.TopN + 1)..Len(flRs)}
            /\ flRs' = SubSeq(flRs, 1, flOpt.TopN)
       ELSE UNCHANGED <<flRecycled, flRs>>
    /\ flPc' = "done"
    /\ UNCHANGED <<flOpt, flMap, flTodo>>
    /\ UNCHANGED notFilter

NextFilter == FilterTarget \/ FilterSort \/ FilterTopN

SpecFilter == InitFilter /\ [][NextFilter]_vars

\* ---- what the claims about the prefilter speak of

\* the targets the prefilter loop has visited
FilterVisited == (DOMAIN flMap) \ flTodo

\* C9: a target left with exactly one anchor after cleaning is kept if and
\* only if that anchor's Len >= MinSinglePrefix or its Mismatch <=
\* MaxMismatch; a target with two or more anchors is never dropped by the
\* prefilter.
C9_SingleAnchorKeptIff ==
    flPc \in {"filter", "sorted"} =>
        \A r \in FilterVisited :
            /\ Len(flMap[r]) = 1 =>
                 (r \notin flRecycled <=>
                    \/ flMap[r][1].Len >= flOpt.MinSinglePrefix
                    \/ flMap[r][1].Mismatch <= flOpt.MaxMismatch)
            /\ Len(flMap[r]) >= 2 => r \notin flRecycled

\* C9 as the code has it: with the mismatch check on, that is with
\* 0 <= MaxMismatch < k - MinPrefix, a target left with exactly one anchor
\* is kept if and only if the anchor's Mismatch <= MaxMismatch; with the
\* check off it is kept if and only if the anchor's Len >= MinSinglePrefix.
\* Either way a kept one has Len >= MinSinglePrefix or Mismatch <=
\* MaxMismatch, and a target with two or more anchors is never dropped.
C9_SingleAnchorKeptByMode ==
    flPc \in {"filter", "sorted"} =>
        \A r \in FilterVisited :
            /\ Len(flMap[r]) = 1 =>
                 /\ r \notin flRecycled <=>
                      IF /\ flOpt.MaxMismatch >= 0
                         /\ flOpt.MaxMismatch < flOpt.K - flOpt.MinPrefix
                      THEN flMap[r][1].Mismatch <= flOpt.MaxMismatch
                      ELSE flMap[r][1].Len >= flOpt.MinSinglePrefix
                 /\ r \notin flRecycled =>
                      \/ flMap[r][1].Len >= flOpt.MinSinglePrefix
                      \/ flMap[r][1].Mismatch <= flOpt.MaxMismatch
            /\ Len(flMap[r]) >= 2 => r \notin flRecycled

\* with the mismatch check on, a short single anchor of low mismatch has
\* been kept and a single anchor of high mismatch dropped
C9_Witness ==
    /\ flPc = "sorted"
    /\ flOpt.MaxMismatch = 2
    /\ \E r \in FilterVisited :
         /\ r \notin flRecycled
         /\ Len(flMap[r]) = 1
         /\ flMap[r][1].Len < flOpt.MinSinglePrefix
         /\ flMap[r][1].Mismatch = 0
    /\ \E r \in FilterVisited :
         /\ r \in flRecycled
         /\ Len(flMap[r]) = 1
         /\ flMap[r][1].Mismatch = 3

\* the sum over the anchors of Len squared
RECURSIVE SumLenSquared(_)
SumLenSquared(subs) ==
    IF subs = <<>> THEN 0
    ELSE Head(subs).Len * Head(subs).Len + SumLenSquared(Tail(subs))

\* the targets that passed the prefilter and were cut by the top N
FilterCut ==
    {r \in FilterVisited :
        /\ ~SingleSeedDropped(flMap[r], flOpt)
        /\ \A i \in 1..Len(flRs) : flRs[i].r # r}

\* C10: the score of each surviving target is the exact sum over its
\* anchors of Len squared, and the top N truncation keeps the targets with
\* the N largest such sums.
C10_ScoreIsSumOfSquares ==
    /\ \A i \in 1..Len(flRs) : flRs[i].Score = SumLenSquared(flMap[flRs[i].r])
    /\ flPc = "done" =>
         \A i \in 1..Len(flRs) :
            \A t \in FilterCut :
                SumLenSquared(flMap[flRs[i].r]) >= SumLenSquared(flMap[t])

\* what the code keeps of C10: the score is the sum of the squares taken
\* modulo 256, and the top N are the largest by that score
ScoreIsSumOfWrappedSquares ==
    /\ \A i \in 1..Len(flRs) : flRs[i].Score = ScoreOf(flMap[flRs[i].r])
    /\ flPc = "done" =>
         \A i \in 1..Len(flRs) :
            \A t \in FilterCut : flRs[i].Score >= ScoreOf(flMap[t])

\* ------------------------------------------------------------------------
\* Index.Search, step 3.3: from the fragments of an HSP to SimilarityDetails

\* how many fragments an HSP has at most
MaxFrags == 3

\* the genomes: one, two or three contigs
SeqSizesChoices == {<<200>>, <<200, 150>>, <<200, 150, 100>>}

\* the contig intervals: two short ones, and the k-1 bases the builder puts
\* between two contigs
ContigIntervalChoices == {1, 20, MaxK - 1}

\* where contig j (from 0) begins in the concatenated genome
RECURSIVE ContigStart(_, _, _)
ContigStart(sizes, ci, j) ==
    IF j = 0 THEN 0 ELSE ContigStart(sizes, ci, j - 1) + sizes[j] + ci

GenomeLen(sizes, ci) ==
    ContigStart(sizes, ci, Len(sizes) - 1) + sizes[Len(sizes)]

\* the fragments, as (begin, end) in the genome: one well inside each
\* contig, one reaching a base into the interval before each later contig,
\* one that runs from the first contig into the second, and one that lies
\* inside the interval before each later contig when the interval has room
FragChoices(sizes, ci) ==
    {<<ContigStart(sizes, ci, j) + 5, ContigStart(sizes, ci, j) + sizes[j + 1] - 6>> :
        j \in 0..(Len(sizes) - 1)}
    \cup {<<ContigStart(sizes, ci, j) - 1, ContigStart(sizes, ci, j) + 90>> :
            j \in 1..(Len(sizes) - 1)}
    \cup {<<100, ContigStart(sizes, ci, 1) + 100>> : j \in 1..(Len(sizes) - 1)}
    \cup {<<ContigStart(sizes, ci, j) - ci + 2, ContigStart(sizes, ci, j) - 3>> :
            j \in {i \in 1..(Len(sizes) - 1) : ci >= 20}}

\* tb and te of a fragment: positions in the fetched region, which is the
\* whole genome (tBegin = 0, tEnd = len(tSeq.Seq) - 1), reversed if rc
FragTb(f, g) ==
    IF g.rc THEN GenomeLen(g.SeqSizes, g.ci) - 1 - f[2] ELSE f[1]

FragTe(f, g) ==
    IF g.rc THEN GenomeLen(g.SeqSizes, g.ci) - 1 - f[1] ELSE f[2]

\* the loop "for j, l = range tSeq.SeqSizes" from contig j (from 1) on:
\* iSeq and tPosOffsetBegin
RECURSIVE ContigScan(_, _, _, _, _, _, _)
ContigScan(sizes, ci, j, offBegin, offEnd, b, e) ==
    IF j > Len(sizes) THEN [iSeq |-> -1, offBegin |-> offBegin]
    ELSE LET end == offEnd + sizes[j] - 1
         IN IF b >= offBegin /\ e <= end
            THEN [iSeq |-> j - 1, offBegin |-> offBegin]
            ELSE ContigScan(sizes, ci, j + 1, end + ci + 1, end + ci + 1, b, e)

\* "get the index of target seq according to the position"
ContigOf(f, g) ==
    IF Len(g.SeqSizes) > 1
    THEN LET tEnd == GenomeLen(g.SeqSizes, g.ci) - 1
             b == IF g.rc THEN tEnd - FragTe(f, g) + MaxK ELSE FragTb(f, g) + MaxK
             e == IF g.rc THEN tEnd - FragTb(f, g) - MaxK ELSE FragTe(f, g) - MaxK
         IN ContigScan(g.SeqSizes, g.ci, 1, 0, 0, b, e)
    ELSE [iSeq |-> 0, offBegin |-> 0]

\* "convert the positions": the fragment in the coordinates of contig iSeq
ConvertFrag(f, g, iSeq, offBegin) ==
    LET len  == GenomeLen(g.SeqSizes, g.ci)
        tb   == FragTb(f, g)
        te   == FragTe(f, g)
        last == g.SeqSizes[iSeq + 1] - 1
        tB0  == IF g.rc THEN 0 - offBegin + (len - te - 1) ELSE 0 - offBegin + tb
        tE0  == IF g.rc THEN 0 - offBegin + (len - tb - 1) ELSE 0 - offBegin + te
        dB   == IF tB0 < 0 THEN tB0 ELSE 0
        dE   == IF tE0 > last THEN tE0 - last ELSE 0
    IN [QBegin |-> IF g.rc THEN tb + dE ELSE tb - dB,
        QEnd   |-> IF g.rc THEN te + dB ELSE te - dE,
        TBegin |-> IF tB0 < 0 THEN 0 ELSE tB0,
        TEnd   |-> IF tE0 > last THEN last ELSE tE0,
        contig |-> iSeq]

\* "remove duplicated alignments": c is already among the bounds
Duplicated(bounds, c) ==
    \E i \in 1..Len(bounds) : bounds[i] = <<c.QBegin, c.QEnd, c.TBegin, c.TEnd>>

\* the SimilarityDetail made of the chains for contig iSeq
SimilarityDetailOf(chains, g, iSeq) ==
    [SeqID |-> iSeq, SeqLen |-> g.SeqSizes[iSeq + 1], Chains |-> chains]

InitAlign ==
    /\ alPc = "loop"
    /\ \E sizes \in SeqSizesChoices, ci \in ContigIntervalChoices, rc \in BOOLEAN :
         /\ alGenome = [SeqSizes |-> sizes, ci |-> ci, rc |-> rc]
         /\ \E n \in 1..MaxFrags : alFrags \in [1..n -> FragChoices(sizes, ci)]
    /\ alNext = 0
    /\ alISeq = 0
    /\ alISeqPre = -1
    /\ alChains2 = <<>>
    /\ alBounds = <<>>
    /\ alSds = <<>>
    /\ alHsp = 1
    /\ NotAlignOff

\* one iteration of "for _, c := range *cr.Chains"
AlignFragment ==
    /\ alPc = "loop"
    /\ alNext < Len(alFrags)
    /\ alNext' = alNext + 1
    /\ LET f  == alFrags[alNext + 1]
           at == ContigOf(f, alGenome)
       IN /\ alISeq' = at.iSeq
          /\ IF at.iSeq < 0
             THEN \* the fragment crosses two sequences: continue
                  UNCHANGED <<alISeqPre, alChains2, alBounds, alSds>>
             ELSE LET c == ConvertFrag(f, alGenome, at.iSeq, at.offBegin)
                  IN IF Len(alGenome.SeqSizes) > 1 /\ alISeqPre >= 0
                        /\ at.iSeq # alISeqPre
                     THEN \* two fragments belong to different sequences
                          /\ alSds' =
                               IF Len(alChains2) > 0
                               THEN Append(alSds,
                                           SimilarityDetailOf(alChains2, alGenome,
                                                              at.iSeq))
                               ELSE alSds
                          /\ alISeqPre' = -1
                          /\ alChains2' = <<c>>
                          /\ UNCHANGED alBounds
                     ELSE /\ alISeqPre' = at.iSeq
                          /\ IF Duplicated(alBounds, c)
                             THEN UNCHANGED <<alChains2, alBounds>>
                             ELSE /\ alChains2' = Append(alChains2, c)
                                  /\ alBounds' = Append(alBounds,
                                                        <<c.QBegin, c.QEnd,
                                                          c.TBegin, c.TEnd>>)
                          /\ UNCHANGED alSds
    /\ UNCHANGED <<alPc, alGenome, alFrags, alHsp>>
    /\ UNCHANGED notAlign

\* after the loop: "if iSeq >= 0 { if len(*crChains2) > 0 { ... } }"
AlignEmit ==
    /\ alPc = "loop"
    /\ alNext = Len(alFrags)
    /\ alSds' = IF alISeq >= 0 /\ Len(alChains2) > 0
                THEN Append(alSds, SimilarityDetailOf(alChains2, alGenome, alISeq))
                ELSE alSds
    /\ alPc' = "done"
    /\ UNCHANGED <<alGenome, alFrags, alNext, alISeq, alISeqPre, alChains2,
                   alBounds, alHsp>>
    /\ UNCHANGED notAlign

NextAlign == AlignFragment \/ AlignEmit

SpecAlign == InitAlign /\ [][NextAlign]_vars

\* ---- the HSPs of one target, one after the other

\* how many HSPs a target has at most
MaxHSPs == 2

\* how many fragments each of these HSPs has at most
MaxHspFrags == 2

\* the fragments of these HSPs: the one well inside each contig, and the
\* one that runs from the first contig into the second
TargetFragChoices(sizes, ci) ==
    {<<ContigStart(sizes, ci, j) + 5, ContigStart(sizes, ci, j) + sizes[j + 1] - 6>> :
        j \in 0..(Len(sizes) - 1)}
    \cup {<<100, ContigStart(sizes, ci, 1) + 100>>}

HspChoices(sizes, ci) ==
    UNION {[1..n -> TargetFragChoices(sizes, ci)] : n \in 1..MaxHspFrags}

\* a target of two contigs and its first HSP
InitAlignTarget ==
    /\ alPc = "loop"
    /\ \E rc \in BOOLEAN :
         alGenome = [SeqSizes |-> <<200, 150>>, ci |-> MaxK - 1, rc |-> rc]
    /\ alFrags \in HspChoices(<<200, 150>>, MaxK - 1)
    /\ alNext = 0
    /\ alISeq = 0
    /\ alISeqPre = -1
    /\ alChains2 = <<>>
    /\ alBounds = <<>>
    /\ alSds = <<>>
    /\ alHsp = 1
    /\ NotAlignOff

\* the next iteration of "for _, chain := range *r.Chains": the strand and
\* the fragments of the next HSP; iSeqPre and crChains2 start afresh,
\* bounds and sds go on
AlignNextHSP ==
    /\ alPc = "done"
    /\ alHsp < MaxHSPs
    /\ alHsp' = alHsp + 1
    /\ alPc' = "loop"
    /\ \E rc \in BOOLEAN : alGenome' = [alGenome EXCEPT !.rc = rc]
    /\ alFrags' \in HspChoices(alGenome.SeqSizes, alGenome.ci)
    /\ alNext' = 0
    /\ alISeqPre' = -1
    /\ alChains2' = <<>>
    /\ UNCHANGED <<alISeq, alBounds, alSds>>
    /\ UNCHANGED notAlign

NextAlignTarget == AlignFragment \/ AlignEmit \/ AlignNextHSP

SpecAlignTarget == InitAlignTarget /\ [][NextAlignTarget]_vars

\* C8: every SimilarityDetail holds fragments of one single contig and its
\* SeqID and SeqLen are the identifier and the size of that contig; an HSP
\* whose fragments fall in different contigs ends as one SimilarityDetail
\* per contig, for any sequence of contigs of the fragments.
C8_OneDetailPerContig ==
    /\ \A i \in 1..Len(alSds) :
         \A j \in 1..Len(alSds[i].Chains) :
            /\ alSds[i].Chains[j].contig = alSds[i].SeqID
            /\ alSds[i].SeqLen = alGenome.SeqSizes[alSds[i].Chains[j].contig + 1]
    /\ alPc = "done" =>
         \A i, j \in 1..Len(alSds) : i # j => alSds[i].SeqID # alSds[j].SeqID

\* what does hold: a genome of one contig gives one SimilarityDetail at
\* most, labelled with that contig
OneContigOneDetail ==
    Len(alGenome.SeqSizes) = 1 =>
        /\ Len(alSds) <= 1
        /\ \A i \in 1..Len(alSds) : alSds[i].SeqID = 0 /\ alSds[i].SeqLen = 200

\* ------------------------------------------------------------------------
\* buildAnIndex, steps 1 and 2: parse and mask the files, collect the
\* k-mers into the accumulator, write the genomes

\* how many input files a batch has at most
MaxFiles == 3

\* the number of masks of the index being built
BuildMasks == MinMasks

\* lh.Mask: the k-mer a genome has under mask i; all genomes share the
\* k-mer of mask 0
MaskKmer(f, i) == IF i = 0 THEN 5 ELSE 10 * f + i

\* chunkSize := (nMasks + threads - 1) / threads, and begin and end of the
\* accumulation task j
AccBegin(j, nMasks, threads) == j * ((nMasks + threads - 1) \div threads)

\* an end that is not cut at nMasks
AccEndUncut(j, nMasks, threads) ==
    AccBegin(j, nMasks, threads) + ((nMasks + threads - 1) \div threads)

AccEnd(j, nMasks, threads) ==
    Min(AccBegin(j, nMasks, threads) + ((nMasks + threads - 1) \div threads),
        nMasks)

BuildFileIds == 1..Len(bdFiles)

\* the ingesters that hold a token
IngestersRunning == {f \in BuildFileIds : bdIng[f].st \in {"read", "masked"}}

\* what Get of a pool may return: a pooled object, or a new one
PoolGet ==
    bdPool \cup
    (IF \E o \in DOMAIN bdObjs : ~bdObjs[o].made
     THEN {CHOOSE o \in DOMAIN bdObjs :
              ~bdObjs[o].made /\ \A p \in DOMAIN bdObjs : p < o => bdObjs[p].made}
     ELSE {})

InitBuild ==
    /\ bdPc = "run"
    /\ \E n \in 1..MaxFiles : bdFiles \in [1..n -> BOOLEAN]
    /\ bdCPUs \in 1..MaxCPUs
    /\ bdNextFile = 0
    /\ bdIng = [f \in BuildFileIds |-> [st |-> "idle", obj |-> 0]]
    /\ bdObjs = [o \in BuildFileIds |->
                    [file |-> 0, dirty |-> FALSE, made |-> FALSE]]
    /\ bdPool = {}
    /\ bdGenomes = <<>>
    /\ bdGenomesClosed = FALSE
    /\ bdGenomesW = <<>>
    /\ bdGenomesWClosed = FALSE
    /\ bdColPc = "recv"
    /\ bdColObj = 0
    /\ bdRefIdx = 0
    /\ bdTasks = {}
    /\ bdDatas = [i \in 0..(BuildMasks - 1) |-> {}]
    /\ bdWriter = [pc |-> "recv", obj |-> 0]
    /\ bdReceived = <<>>
    /\ bdWritten = <<>>
    /\ NotBuildOff

\* "for _, file := range files { tokens <- 1 ... go func(file) {": the next
\* ingester starts, gets a Genome from the pool and resets it
IngestStart ==
    /\ bdPc = "run"
    /\ bdNextFile < Len(bdFiles)
    /\ Cardinality(IngestersRunning) < bdCPUs
    /\ \E o \in PoolGet :
         /\ bdObjs' = [bdObjs EXCEPT ![o].dirty = TRUE, ![o].made = TRUE]
         /\ bdPool' = bdPool \ {o}
         /\ bdIng' = [bdIng EXCEPT ![bdNextFile + 1] = [st |-> "read", obj |-> o]]
    /\ bdNextFile' = bdNextFile + 1
    /\ UNCHANGED <<bdPc, bdFiles, bdCPUs, bdGenomes, bdGenomesClosed, bdGenomesW,
                   bdGenomesWClosed, bdColPc, bdColObj, bdRefIdx, bdTasks,
                   bdDatas, bdWriter, bdReceived, bdWritten>>
    /\ UNCHANGED notBuild

\* a file with a valid sequence: the sequences are read and masked into
\* the Genome
IngestMask ==
    /\ bdPc = "run"
    /\ \E f \in BuildFileIds :
         /\ bdIng[f].st = "read"
         /\ bdFiles[f]
         /\ bdObjs' = [bdObjs EXCEPT ![bdIng[f].obj].file = f,
                                     ![bdIng[f].obj].dirty = FALSE]
         /\ bdIng' = [bdIng EXCEPT ![f].st = "masked"]
    /\ UNCHANGED <<bdPc, bdFiles, bdCPUs, bdNextFile, bdPool, bdGenomes,
                   bdGenomesClosed, bdGenomesW, bdGenomesWClosed, bdColPc,
                   bdColObj, bdRefIdx, bdTasks, bdDatas, bdWriter, bdReceived,
                   bdWritten>>
    /\ UNCHANGED notBuild

\* "if len(refseq.Seq) == 0": the Genome goes back to the pool, the file
\* is skipped
IngestSkip ==
    /\ bdPc = "run"
    /\ \E f \in BuildFileIds :
         /\ bdIng[f].st = "read"
         /\ ~bdFiles[f]
         /\ bdPool' = bdPool \cup {bdIng[f].obj}
         /\ bdIng' = [bdIng EXCEPT ![f] = [st |-> "done", obj |-> 0]]
    /\ UNCHANGED <<bdPc, bdFiles, bdCPUs, bdNextFile, bdObjs, bdGenomes,
                   bdGenomesClosed, bdGenomesW, bdGenomesWClosed, bdColPc,
                   bdColObj, bdRefIdx, bdTasks, bdDatas, bdWriter, bdReceived,
                   bdWritten>>
    /\ UNCHANGED notBuild

\* genomes <- refseq
IngestSend ==
    /\ bdPc = "run"
    /\ \E f \in BuildFileIds :
         /\ bdIng[f].st = "masked"
         /\ Len(bdGenomes) < bdCPUs
         /\ bdGenomes' = Append(bdGenomes, bdIng[f].obj)
         /\ bdIng' = [bdIng EXCEPT ![f] = [st |-> "done", obj |-> 0]]
    /\ UNCHANGED <<bdPc, bdFiles, bdCPUs, bdNextFile, bdObjs, bdPool,
                   bdGenomesClosed, bdGenomesW, bdGenomesWClosed, bdColPc,
                   bdColObj, bdRefIdx, bdTasks, bdDatas, bdWriter, bdReceived,
                   bdWritten>>
    /\ UNCHANGED notBuild

\* wg.Wait(); close(genomes)
MainClose ==
    /\ bdPc = "run"
    /\ bdNextFile = Len(bdFiles)
    /\ \A f \in BuildFileIds : bdIng[f].st = "done"
    /\ ~bdGenomesClosed
    /\ bdGenomesClosed' = TRUE
    /\ UNCHANGED <<bdPc, bdFiles, bdCPUs, bdNextFile, bdIng, bdObjs, bdPool,
                   bdGenomes, bdGenomesW, bdGenomesWClosed, bdColPc, bdColObj,
                   bdRefIdx, bdTasks, bdDatas, bdWriter, bdReceived, bdWritten>>
    /\ UNCHANGED notBuild

\* the collector: "for refseq := range genomes" receives a record
CollectRecv ==
    /\ bdPc = "run"
    /\ bdColPc = "recv"
    /\ bdGenomes # <<>>
    /\ bdColObj' = Head(bdGenomes)
    /\ bdGenomes' = Tail(bdGenomes)
    /\ bdReceived' = Append(bdReceived, bdObjs[Head(bdGenomes)].file)
    /\ bdColPc' = "send"
    /\ UNCHANGED <<bdPc, bdFiles, bdCPUs, bdNextFile, bdIng, bdObjs, bdPool,
                   bdGenomesClosed, bdGenomesW, bdGenomesWClosed, bdRefIdx,
                   bdTasks, bdDatas, bdWriter, bdWritten>>
    /\ UNCHANGED notBuild

\* the accumulation tasks of one record: task j works on the masks of its
\* range, reading the k-mers through the pointers taken from refseq
AccTasks(obj, round, nMasks, threads) ==
    {[i     |-> AccBegin(j, nMasks, threads),
      end   |-> AccEnd(j, nMasks, threads),
      round |-> round,
      obj   |-> obj] :
        j \in {t \in 0..(threads - 1) :
                  AccBegin(t, nMasks, threads) < AccEnd(t, nMasks, threads)}}

\* a channel genomesW that takes any number of records
GenomesWNeverFull == FALSE

\* genomesW := make(chan *genome.Genome, opt.NumCPUs) holds NumCPUs records
GenomesWFull == Len(bdGenomesW) >= bdCPUs

\* "genomesW <- refseq", then the tasks of the record are started
CollectSend ==
    /\ bdPc = "run"
    /\ bdColPc = "send"
    /\ ~GenomesWFull
    /\ bdGenomesW' = Append(bdGenomesW, bdColObj)
    /\ bdTasks' = bdTasks \cup
                     AccTasks(bdColObj, Len(bdReceived) - 1, BuildMasks, bdCPUs)
    /\ bdColPc' = "wait"
    /\ UNCHANGED <<bdPc, bdFiles, bdCPUs, bdNextFile, bdIng, bdObjs, bdPool,
                   bdGenomes, bdGenomesClosed, bdGenomesWClosed, bdColObj,
                   bdRefIdx, bdDatas, bdWriter, bdReceived, bdWritten>>
    /\ UNCHANGED notBuild

\* one iteration of "for i := begin; i < end; i++" of a task: the k-mer of
\* mask i is read from the record and a value with refIdx is appended
TaskAppend ==
    /\ bdPc = "run"
    /\ \E t \in bdTasks :
         /\ bdDatas' = [bdDatas EXCEPT ![t.i] =
                           @ \cup {[kmer   |-> MaskKmer(bdObjs[t.obj].file, t.i),
                                    refIdx |-> bdRefIdx,
                                    round  |-> t.round]}]
         /\ bdTasks' = (bdTasks \ {t}) \cup
                         (IF t.i + 1 < t.end
                          THEN {[t EXCEPT !.i = t.i + 1]} ELSE {})
    /\ UNCHANGED <<bdPc, bdFiles, bdCPUs, bdNextFile, bdIng, bdObjs, bdPool,
                   bdGenomes, bdGenomesClosed, bdGenomesW, bdGenomesWClosed,
                   bdColPc, bdColObj, bdRefIdx, bdWriter, bdReceived, bdWritten>>
    /\ UNCHANGED notBuild

\* a task reads a record that an ingester has taken from the pool and
\* reset: the index may be out of range
TaskPanic ==
    /\ bdPc = "run"
    /\ \E t \in bdTasks : bdObjs[t.obj].dirty
    /\ bdPc' = "panic"
    /\ UNCHANGED <<bdFiles, bdCPUs, bdNextFile, bdIng, bdObjs, bdPool,
                   bdGenomes, bdGenomesClosed, bdGenomesW, bdGenomesWClosed,
                   bdColPc, bdColObj, bdRefIdx, bdTasks, bdDatas, bdWriter,
                   bdReceived, bdWritten>>
    /\ UNCHANGED notBuild

\* a collector that does not wait for its tasks
CollectorNeverWaits == TRUE

\* wg.Wait() of the collector returns
CollectorWaited == bdTasks = {}

\* "wg.Wait(); refIdx++"
CollectWait ==
    /\ bdPc = "run"
    /\ bdColPc = "wait"
    /\ CollectorWaited
    /\ bdRefIdx' = bdRefIdx + 1
    /\ bdColPc' = "recv"
    /\ UNCHANGED <<bdPc, bdFiles, bdCPUs, bdNextFile, bdIng, bdObjs, bdPool,
                   bdGenomes, bdGenomesClosed, bdGenomesW, bdGenomesWClosed,
                   bdColObj, bdTasks, bdDatas, bdWriter, bdReceived, bdWritten>>
    /\ UNCHANGED notBuild

\* genomes is closed and empty: "close(genomesW); done <- 1"
CollectClose ==
    /\ bdPc = "run"
    /\ bdColPc = "recv"
    /\ bdGenomes = <<>>
    /\ bdGenomesClosed
    /\ bdGenomesWClosed' = TRUE
    /\ bdColPc' = "done"
    /\ UNCHANGED <<bdPc, bdFiles, bdCPUs, bdNextFile, bdIng, bdObjs, bdPool,
                   bdGenomes, bdGenomesClosed, bdGenomesW, bdColObj, bdRefIdx,
                   bdTasks, bdDatas, bdWriter, bdReceived, bdWritten>>
    /\ UNCHANGED notBuild

\* the genome writer: "for refseq := range genomesW { gw.Write(refseq)"
WriterWrite ==
    /\ bdPc = "run"
    /\ bdWriter.pc = "recv"
    /\ bdGenomesW # <<>>
    /\ bdWriter' = [pc |-> "recycle", obj |-> Head(bdGenomesW)]
    /\ bdGenomesW' = Tail(bdGenomesW)
    /\ bdWritten' = Append(bdWritten, bdObjs[Head(bdGenomesW)].file)
    /\ UNCHANGED <<bdPc, bdFiles, bdCPUs, bdNextFile, bdIng, bdObjs, bdPool,
                   bdGenomes, bdGenomesClosed, bdGenomesWClosed, bdColPc,
                   bdColObj, bdRefIdx, bdTasks, bdDatas, bdReceived>>
    /\ UNCHANGED notBuild

\* lh.RecycleMaskResult(refseq.Kmers, refseq.Locses);
\* genome.RecycleGenome(refseq)
WriterRecycle ==
    /\ bdPc = "run"
    /\ bdWriter.pc = "recycle"
    /\ bdPool' = bdPool \cup {bdWriter.obj}
    /\ bdWriter' = [pc |-> "recv", obj |-> 0]
    /\ UNCHANGED <<bdPc, bdFiles, bdCPUs, bdNextFile, bdIng, bdObjs, bdGenomes,
                   bdGenomesClosed, bdGenomesW, bdGenomesWClosed, bdColPc,
                   bdColObj, bdRefIdx, bdTasks, bdDatas, bdReceived, bdWritten>>
    /\ UNCHANGED notBuild

\* genomesW is closed and empty: "doneGW <- 1"
WriterDone ==
    /\ bdPc = "run"
    /\ bdWriter.pc = "recv"
    /\ bdGenomesW = <<>>
    /\ bdGenomesWClosed
    /\ bdWriter' = [pc |-> "done", obj |-> 0]
    /\ UNCHANGED <<bdPc, bdFiles, bdCPUs, bdNextFile, bdIng, bdObjs, bdPool,
                   bdGenomes, bdGenomesClosed, bdGenomesW, bdGenomesWClosed,
                   bdColPc, bdColObj, bdRefIdx, bdTasks, bdDatas, bdReceived,
                   bdWritten>>
    /\ UNCHANGED notBuild

\* "<-done" and "<-doneGW": all k-mer data are collected, all genome data
\* are saved
BuildDone ==
    /\ bdPc = "run"
    /\ bdColPc = "done"
    /\ bdWriter.pc = "done"
    /\ bdPc' = "done"
    /\ UNCHANGED <<bdFiles, bdCPUs, bdNextFile, bdIng, bdObjs, bdPool,
                   bdGenomes, bdGenomesClosed, bdGenomesW, bdGenomesWClosed,
                   bdColPc, bdColObj, bdRefIdx, bdTasks, bdDatas, bdWriter,
                   bdReceived, bdWritten>>
    /\ UNCHANGED notBuild

NextBuild ==
    \/ IngestStart \/ IngestMask \/ IngestSkip \/ IngestSend \/ MainClose
    \/ CollectRecv \/ CollectSend \/ TaskAppend \/ TaskPanic \/ CollectWait
    \/ CollectClose \/ WriterWrite \/ WriterRecycle \/ WriterDone \/ BuildDone

SpecBuild == InitBuild /\ [][NextBuild]_vars

\* ---- what the claims about the build speak of

\* the input files that have a valid sequence
ValidFiles == {f \in BuildFileIds : bdFiles[f]}

\* s is an initial part of t
IsPrefix(s, t) == Len(s) <= Len(t) /\ \A i \in 1..Len(s) : s[i] = t[i]

\* C5: the n-th genome record the collector receives (from 0) has refIdx n
\* in every value appended for it and is the n-th genome handed to the
\* genome writer; no two genomes share a refIdx, and a skipped file takes
\* no refIdx.
C5_RefIdxIsArrivalOrder ==
    /\ \A i \in DOMAIN bdDatas : \A v \in bdDatas[i] : v.refIdx = v.round
    /\ IsPrefix(bdWritten, bdReceived)
    /\ \A a, b \in 1..Len(bdReceived) : a # b => bdReceived[a] # bdReceived[b]
    /\ \A a \in 1..Len(bdReceived) : bdReceived[a] \in ValidFiles
    /\ bdRefIdx = Len(bdReceived) - (IF bdColPc \in {"send", "wait"} THEN 1 ELSE 0)
    /\ bdPc = "done" =>
         /\ bdRefIdx = Cardinality(ValidFiles)
         /\ bdWritten = bdReceived

\* a batch of three files of which the first is skipped is built: the
\* third file arrived first and has refIdx 0 in all its values, the second
\* has refIdx 1
C5_Witness ==
    /\ bdPc = "done"
    /\ bdFiles = <<FALSE, TRUE, TRUE>>
    /\ bdReceived = <<3, 2>>
    /\ bdWritten = <<3, 2>>
    /\ \A i \in DOMAIN bdDatas :
         /\ [kmer |-> MaskKmer(3, i), refIdx |-> 0, round |-> 0] \in bdDatas[i]
         /\ [kmer |-> MaskKmer(2, i), refIdx |-> 1, round |-> 1] \in bdDatas[i]

\* the k-mer keys of mask i in the accumulator
KeysOf(i) == {v.kmer : v \in bdDatas[i]}

\* C7: two builds of the same files give, for every mask, the same set of
\* k-mer keys, whatever the interleaving: the keys of a mask are the
\* k-mers the valid files have under it.
C7_KeySetsDetermined ==
    bdPc = "done" =>
        \A i \in DOMAIN bdDatas : KeysOf(i) = {MaskKmer(f, i) : f \in ValidFiles}

\* a build in which this is so is reached too: the outcome depends on the
\* interleaving
BuildWithAllKeys ==
    /\ bdPc = "done"
    /\ Cardinality(ValidFiles) >= 2
    /\ \A i \in DOMAIN bdDatas : KeysOf(i) = {MaskKmer(f, i) : f \in ValidFiles}

\* the record the collector is processing, counted from 0
CollectorRound == Len(bdReceived) - 1

\* the collector has received a record and not yet finished with it
CollectorBusy == bdColPc \in {"send", "wait"}

TaskRange(t) == t.i..(t.end - 1)

\* the mask ranges of the tasks of one record: pairwise disjoint, and
\* together all the masks
RangesPartition(nMasks, threads) ==
    /\ \A j1, j2 \in 0..(threads - 1) :
         j1 # j2 =>
            (AccBegin(j1, nMasks, threads)..(AccEnd(j1, nMasks, threads) - 1))
            \cap (AccBegin(j2, nMasks, threads)..(AccEnd(j2, nMasks, threads) - 1))
            = {}
    /\ UNION {AccBegin(j, nMasks, threads)..(AccEnd(j, nMasks, threads) - 1) :
                 j \in 0..(threads - 1)} = 0..(nMasks - 1)

\* C14: during accumulation each accumulator entry is written by at most
\* one task at a time: the mask ranges [j*cs, min((j+1)*cs, M)) with
\* cs = ceil(M/NumCPUs) of the tasks of one record are pairwise disjoint and
\* cover 0..M-1, and tasks of different records never run at the same time.
C14_OneWriterPerMask ==
    /\ \A t1, t2 \in bdTasks :
         /\ t1.round = t2.round
         /\ t1 # t2 => TaskRange(t1) \cap TaskRange(t2) = {}
    /\ bdPc # "off" => RangesPartition(BuildMasks, bdCPUs)
    /\ (bdPc = "run" /\ bdNextFile = 0) =>
         \A nMasks \in 1..MaxMasks : RangesPartition(nMasks, bdCPUs)
    /\ bdColPc = "recv" => bdTasks = {}

\* two tasks of the second record are running, each having written one
\* mask of its own range
C14_Witness ==
    /\ bdPc = "run"
    /\ CollectorRound = 1
    /\ \E t1, t2 \in bdTasks :
         /\ t1.i = 1
         /\ t2.i = 3
         /\ \E v \in bdDatas[0] : v.round = 1
         /\ \E v \in bdDatas[2] : v.round = 1

\* ------------------------------------------------------------------------
\* Index.Search: the fan-out over the chunk searchers and their tokens

\* how many chunk searchers the index has, callers search at the same time,
\* and calls one caller makes one after the other
MaxSearchers == 2

MaxCallers == 2

MaxSearches == 1

\* cap(idx.searcherTokens[i]): make(chan int, 1)
TokenCap == 1

\* the send "idx.searcherTokens[iS] <- 1" can proceed whatever the channel holds
TokenSendNeverBlocks(i) == TRUE

\* the send "idx.searcherTokens[iS] <- 1" can proceed: the channel is not full
TokenSendReady(i) == tkTokens[i] < TokenCap

\* the tasks that are inside searchers[i].Search
TokenHolders(i) ==
    {q \in DOMAIN tkTask : tkTask[q][i] = "searching"}

\* NewIndexSearcher: every token channel is empty, no call is running
InitTokens ==
    /\ tkPc = "run"
    /\ \E n \in 1..MaxSearchers, c \in 1..MaxCallers :
         /\ tkTokens = [i \in 1..n |-> 0]
         /\ tkCall = [q \in 1..c |-> "idle"]
         /\ tkTask = [q \in 1..c |-> [i \in 1..n |-> "none"]]
         /\ tkCh = [q \in 1..c |-> 0]
         /\ tkCalls = [q \in 1..c |-> 0]
    /\ NotTokensOff

\* Index.Search up to the end of the loop "for iS := 0; iS < nSearchers; iS++":
\* one task per searcher is started
SearchFanOut ==
    /\ tkPc = "run"
    /\ \E q \in DOMAIN tkCall :
         /\ tkCall[q] = "idle"
         /\ tkCalls[q] < MaxSearches
         /\ tkCall' = [tkCall EXCEPT ![q] = "fanout"]
         /\ tkTask' = [tkTask EXCEPT ![q] = [i \in DOMAIN tkTokens |-> "started"]]
    /\ UNCHANGED <<tkPc, tkTokens, tkCh, tkCalls>>
    /\ UNCHANGED notTokens

\* idx.searcherTokens[iS] <- 1
TokenAcquire ==
    /\ tkPc = "run"
    /\ \E q \in DOMAIN tkTask, i \in DOMAIN tkTokens :
         /\ tkTask[q][i] = "started"
         /\ TokenSendReady(i)
         /\ tkTokens' = [tkTokens EXCEPT ![i] = @ + 1]
         /\ tkTask' = [tkTask EXCEPT ![q][i] = "searching"]
    /\ UNCHANGED <<tkPc, tkCall, tkCh, tkCalls>>
    /\ UNCHANGED notTokens

\* the rest of the task, which never blocks: searchers[iS].Search(...)
\* returns; checkError(err) ends the process, an empty list is recycled, any
\* other is sent on ch (whose capacity is nSearchers); then
\* <-idx.searcherTokens[iS] and wg.Done()
TokenSearch ==
    /\ tkPc = "run"
    /\ \E q \in DOMAIN tkTask, i \in DOMAIN tkTokens :
         /\ tkTask[q][i] = "searching"
         /\ \E outcome \in {"err", "empty", "hits"} :
              IF outcome = "err"
              THEN /\ tkPc' = "exited"
                   /\ UNCHANGED <<tkTokens, tkTask, tkCh>>
              ELSE /\ tkCh' = [tkCh EXCEPT ![q] =
                                  IF outcome = "hits" THEN @ + 1 ELSE @]
                   /\ tkTokens[i] > 0
                   /\ tkTokens' = [tkTokens EXCEPT ![i] = @ - 1]
                   /\ tkTask' = [tkTask EXCEPT ![q][i] = "done"]
                   /\ UNCHANGED tkPc
    /\ UNCHANGED <<tkCall, tkCalls>>
    /\ UNCHANGED notTokens

\* the collecting task: "for srs := range ch"
TokenCollect ==
    /\ tkPc = "run"
    /\ \E q \in DOMAIN tkCh :
         /\ tkCh[q] > 0
         /\ tkCh' = [tkCh EXCEPT ![q] = @ - 1]
    /\ UNCHANGED <<tkPc, tkTokens, tkCall, tkTask, tkCalls>>
    /\ UNCHANGED notTokens

\* wg.Wait(); close(ch); <-done: the rest of the call uses no searcher
SearchJoin ==
    /\ tkPc = "run"
    /\ \E q \in DOMAIN tkCall :
         /\ tkCall[q] = "fanout"
         /\ \A i \in DOMAIN tkTokens : tkTask[q][i] = "done"
         /\ tkCh[q] = 0
         /\ tkCall' = [tkCall EXCEPT ![q] = "idle"]
         /\ tkTask' = [tkTask EXCEPT ![q] = [i \in DOMAIN tkTokens |-> "none"]]
         /\ tkCalls' = [tkCalls EXCEPT ![q] = @ + 1]
    /\ UNCHANGED <<tkPc, tkTokens, tkCh>>
    /\ UNCHANGED notTokens

NextTokens ==
    \/ SearchFanOut
    \/ TokenAcquire
    \/ TokenSearch
    \/ TokenCollect
    \/ SearchJoin

SpecTokens == InitTokens /\ [][NextTokens]_vars

\* C12: at any time at most one task is executing Search on a given chunk
\* searcher, within one Index.Search call and between concurrent calls on
\* the same Index; a task is inside Search only while the chunk's token is
\* taken.
C12_OneSearchPerChunk ==
    tkPc # "off" =>
        \A i \in DOMAIN tkTokens :
            /\ Cardinality(TokenHolders(i)) <= 1
            /\ Cardinality(TokenHolders(i)) = tkTokens[i]

\* a task of one call is searching a chunk while the task of another call
\* for the same chunk waits for the token
C12_Witness ==
    /\ tkPc = "run"
    /\ \E i \in DOMAIN tkTokens :
         \E q1, q2 \in DOMAIN tkTask :
            /\ q1 # q2
            /\ tkTask[q1][i] = "searching"
            /\ tkTask[q2][i] = "started"

\* ------------------------------------------------------------------------
\* Chainer2.Chain and chainARegion

\* how many anchors a call is given at most
MaxAnchors == 4

\* DefaultChaining2Options
DefaultMaxGap == 32

DefaultMinScore == 20

DefaultMaxDistance == 50

DefaultBand == 20

\* "if M < 100": the score below which Chain quits early
EarlyQuitScore == 100

\* the sample of anchors (QBegin, TBegin, Len): long and short ones at the
\* origin, anchors of several lengths on one diagonal within reach of each
\* other, two off the diagonal (one within the gap limit, one far above),
\* and two further up the diagonal out of reach
PairChoices ==
    {[QBegin |-> 0, TBegin |-> 0, Len |-> 110],
     [QBegin |-> 0, TBegin |-> 0, Len |-> 25],
     [QBegin |-> 100, TBegin |-> 100, Len |-> 90],
     [QBegin |-> 100, TBegin |-> 100, Len |-> 60],
     [QBegin |-> 130, TBegin |-> 130, Len |-> 60],
     [QBegin |-> 130, TBegin |-> 130, Len |-> 25],
     [QBegin |-> 140, TBegin |-> 400, Len |-> 25],
     [QBegin |-> 150, TBegin |-> 150, Len |-> 80],
     [QBegin |-> 150, TBegin |-> 150, Len |-> 20],
     [QBegin |-> 150, TBegin |-> 180, Len |-> 70],
     [QBegin |-> 150, TBegin |-> 180, Len |-> 20],
     [QBegin |-> 160, TBegin |-> 160, Len |-> 30],
     [QBegin |-> 200, TBegin |-> 200, Len |-> 30],
     [QBegin |-> 300, TBegin |-> 300, Len |-> 120]}

\* the order the caller sorts the anchors in: QBegin ascending, then QEnd
\* descending
PairBefore(a, b) ==
    \/ a.QBegin < b.QBegin
    \/ a.QBegin = b.QBegin /\ a.QBegin + a.Len > b.QBegin + b.Len

\* the sorted lists of up to MaxAnchors different anchors
SortedPairsChoices ==
    UNION {{s \in [1..n -> PairChoices] :
               \A i \in 1..(n - 1) : PairBefore(s[i], s[i + 1])} :
           n \in 1..MaxAnchors}

\* the band widths tried: the default and the narrowest
BandChoices == {1, DefaultBand}

distance2(a, b) == Max(a.QBegin - b.QBegin, a.TBegin - b.TBegin)

gap2(a, b) ==
    LET g == a.QBegin - b.QBegin - (a.TBegin - b.TBegin)
    IN IF g < 0 THEN -g ELSE g

\* the loop "for _b = 1; _b <= band; _b++" of anchor i from _b on: acc holds
\* m and mj
RECURSIVE BandScan(_, _, _, _, _, _)
BandScan(subs, maxscores, opt, i, b, acc) ==
    IF b > opt.Band \/ i - b < 0 THEN acc
    ELSE LET j == i - b
             a == At(subs, i)
             p == At(subs, j)
             s == At(maxscores, j) + p.Len - gap2(a, p)
         IN IF \/ p.TBegin > a.TBegin
               \/ distance2(a, p) > opt.MaxDistance
               \/ gap2(a, p) > opt.MaxGap
            THEN BandScan(subs, maxscores, opt, i, b + 1, acc)
            ELSE BandScan(subs, maxscores, opt, i, b + 1,
                          IF s >= acc.m THEN [m |-> s, mj |-> j] ELSE acc)

\* an overlap check that lets every anchor through
OverlappedNever(sub, bounds) == FALSE

\* "check if an anchor overlaps with previous chains"
Overlapped(sub, bounds) ==
    \E bi \in 1..Len(bounds) :
        ~(\/ sub.QBegin > bounds[bi][2] /\ sub.TBegin > bounds[bi][4]
          \/ /\ sub.QBegin + sub.Len - 1 < bounds[bi][1]
             /\ sub.TBegin + sub.Len - 1 < bounds[bi][3])

\* the locals of chainARegion before the backtracking loop
BacktrackStart ==
    [chain |-> <<>>, first |-> TRUE, qb |-> 0, qe |-> 0, tb |-> 0, te |-> 0,
     nMatchedBases |-> 0, beginOfNextAnchor |-> 0, i |-> 0, j |-> 0]

\* the else branch of "if overlapped": anchor i is recorded
AddAnchor(st, sub, i) ==
    [st EXCEPT
        !.chain = Append(@, i),
        !.first = FALSE,
        !.qe = IF st.first THEN sub.QBegin + sub.Len - 1 ELSE @,
        !.te = IF st.first THEN sub.TBegin + sub.Len - 1 ELSE @,
        !.qb = sub.QBegin,
        !.tb = sub.TBegin,
        !.nMatchedBases =
            IF st.first THEN @ + sub.Len
            ELSE IF sub.QBegin + sub.Len - 1 >= st.beginOfNextAnchor
                 THEN @ + (st.beginOfNextAnchor - sub.QBegin)
                 ELSE @ + sub.Len,
        !.beginOfNextAnchor = sub.QBegin]

\* the backtracking loop of chainARegion from anchor i on; anchors are
\* named by their index in the whole list, the region begins at offset lo
RECURSIVE Backtrack(_, _, _, _, _, _)
Backtrack(subs, maxscoresIdxs, lo, bounds, i, st) ==
    LET prev == At(maxscoresIdxs, i)
    IN IF prev - lo < 0
       THEN [st EXCEPT !.i = i, !.j = prev - lo]
       ELSE LET st1 == IF Overlapped(At(subs, i), bounds) THEN st
                       ELSE AddAnchor(st, At(subs, i), i)
            IN IF i = prev
               THEN [st1 EXCEPT !.i = i, !.j = prev - lo]
               ELSE Backtrack(subs, maxscoresIdxs, lo, bounds, prev, st1)

\* the reversed list
Reversed(s) == [k \in 1..Len(s) |-> s[Len(s) + 1 - k]]

\* "poolChain2.Get().(*Chain2Result)" followed by Reset: the object put
\* last if the pool holds one, else a new one; Reset empties Chain and
\* leaves the other fields as they are
PoolChain2Get(pool2, nextId) ==
    IF pool2 # <<>>
    THEN [obj |-> [pool2[Len(pool2)] EXCEPT !.Chain = <<>>],
          pool2 |-> SubSeq(pool2, 1, Len(pool2) - 1), nextId |-> nextId]
    ELSE [obj |-> [id |-> nextId, Chain |-> <<>>, MatchedBases |-> 0,
                   AlignedBases |-> 0, QBegin |-> 0, QEnd |-> 0,
                   TBegin |-> 0, TEnd |-> 0],
          pool2 |-> pool2, nextId |-> nextId + 1]

\* the Chain2Result of a backtrack that has recorded an anchor, written
\* into the object path
PathOf(bt, path) ==
    [id |-> path.id,
     Chain |-> Reversed(bt.chain),
     MatchedBases |-> bt.nMatchedBases,
     AlignedBases |-> bt.qe - bt.qb + 1,
     QBegin |-> bt.qb, QEnd |-> bt.qe, TBegin |-> bt.tb, TEnd |-> bt.te]

\* "for i, m = range maxscores { if m > M { M, Mi = m, i } }" over the
\* region lo..hi
RegionMax(maxscores, lo, hi) ==
    LET top == CHOOSE m \in {At(maxscores, i) : i \in lo..hi} \cup {0} :
                  \A i \in lo..hi : At(maxscores, i) <= m
        Mi  == IF top = 0 THEN lo
               ELSE CHOOSE i \in lo..hi :
                       /\ At(maxscores, i) = top
                       /\ \A h \in lo..(i - 1) : At(maxscores, h) < top
    IN [M |-> top, Mi |-> Mi]

\* "if _score > 0 { if _qB < qB ... }": the bounds of a sub-region widen
\* those of the region
Widened(box, ret) ==
    IF ret[1] > 0
    THEN <<Min(box[1], ret[2]), Max(box[2], ret[3]),
           Min(box[3], ret[4]), Max(box[4], ret[5])>>
    ELSE box

\* the 4-tuple chainARegion appends to *bounds after the backtracking loop
BoxOf(bt) == <<bt.qb, bt.qe, bt.tb, bt.te>>

\* what chainARegion does with the object it took from poolChain2: "if
\* len(*path.Chain) > 0 { ... *paths = append(*paths, path) }", and
\* "poolChain.Put(path)" when the predecessor is outside the region (j < 0)
\* and no anchor was recorded; followed by "*bounds = append(*bounds, qb,
\* qe, tb, te)"
Emitted(acc, bt) ==
    LET g == PoolChain2Get(acc.pool2, acc.nextId)
    IN
    [acc EXCEPT
        !.pool2 = g.pool2,
        !.nextId = g.nextId,
        !.taken = @ \cup {g.obj.id},
        !.pool = IF bt.chain = <<>> /\ bt.j < 0 THEN Append(@, g.obj) ELSE @,
        !.paths = IF bt.chain # <<>> THEN Append(@, PathOf(bt, g.obj)) ELSE @,
        !.nMatchedBases = IF bt.chain # <<>> THEN @ + bt.nMatchedBases ELSE @,
        !.nAlignedBases =
            IF bt.chain # <<>> THEN @ + (bt.qe - bt.qb + 1) ELSE @,
        !.bounds = Append(@, BoxOf(bt))]

\* the end of chainARegion: the score M of the region and its bounds, widened
\* by the left region when there was one
RegionRet(M, box, went, acc) ==
    LET b == IF went THEN Widened(box, acc.ret) ELSE box
    IN [acc EXCEPT !.ret = <<M, b[1], b[2], b[3], b[4]>>]

RECURSIVE chainARegion(_, _, _, _, _, _, _, _)

\* "the left part": the recursion on the anchors before the chain, bt.i
\* being the first anchor of the chain; wentR tells whether there was a
\* right region, accR is the state it left
RegionLeft(subs, maxscores, maxscoresIdxs, lo, minScore, M, bt, wentR, accR) ==
    LET boxR == IF wentR THEN Widened(BoxOf(bt), accR.ret) ELSE BoxOf(bt)
    IN RegionRet(M, boxR, bt.i > lo,
                 IF bt.i > lo
                 THEN chainARegion(subs, maxscores, maxscoresIdxs, lo,
                                   bt.i - 1, minScore, -1, accR)
                 ELSE accR)

\* "the right part": the recursion on the anchors after Mi, once the chain
\* and its bounds are recorded
RegionRight(subs, maxscores, maxscoresIdxs, lo, hi, minScore, M, Mi, bt, acc) ==
    RegionLeft(subs, maxscores, maxscoresIdxs, lo, minScore, M, bt, Mi # hi,
               IF Mi # hi
               THEN chainARegion(subs, maxscores, maxscoresIdxs, Mi + 1, hi,
                                 minScore, -1, Emitted(acc, bt))
               ELSE Emitted(acc, bt))

\* chainARegion on the anchors lo..hi of the list; Mi0 is counted within
\* the region, acc holds *paths, *bounds and the two totals
chainARegion(subs, maxscores, maxscoresIdxs, lo, hi, minScore, Mi0, acc) ==
    LET rm == RegionMax(maxscores, lo, hi)
    IN IF Mi0 < 0 /\ rm.M < minScore
       THEN [acc EXCEPT !.ret = <<0, -1, -1, -1, -1>>]
       ELSE IF Mi0 < 0
       THEN RegionRight(subs, maxscores, maxscoresIdxs, lo, hi, minScore,
                        rm.M, rm.Mi,
                        Backtrack(subs, maxscoresIdxs, lo, acc.bounds, rm.Mi,
                                  BacktrackStart), acc)
       ELSE RegionRight(subs, maxscores, maxscoresIdxs, lo, hi, minScore,
                        0, lo + Mi0,
                        Backtrack(subs, maxscoresIdxs, lo, acc.bounds,
                                  lo + Mi0, BacktrackStart), acc)

\* the state of a call that has not begun its work
CallBegins ==
    /\ c2Pc = "enter"
    /\ c2I = 0
    /\ c2Maxscores = <<>>
    /\ c2MaxscoresIdxs = <<>>
    /\ c2M = 0
    /\ c2Mi = 0
    /\ c2Paths = <<>>
    /\ c2Bounds = <<>>
    /\ c2Ret = <<>>
    /\ c2Taken = {}

\* a Chainer2 with its options, given a sorted anchor list; the pools are
\* empty
InitChain2 ==
    /\ CallBegins
    /\ \E band \in BandChoices :
         c2Opt = [MaxGap |-> DefaultMaxGap, MinScore |-> DefaultMinScore,
                  MaxDistance |-> DefaultMaxDistance, Band |-> band]
    /\ c2Subs \in SortedPairsChoices
    /\ c2Pool2 = <<>>
    /\ c2Pool = <<>>
    /\ c2NextId = 1
    /\ c2Calls = 1
    /\ NotChain2Off

\* Chain up to the scoring loop: one anchor is judged by its length, more
\* have maxscores initialised with the first
ChainEnter ==
    /\ c2Pc = "enter"
    /\ IF Len(c2Subs) = 1
       THEN /\ c2Pc' = "done"
            /\ IF c2Subs[1].Len >= c2Opt.MinScore
               THEN LET g == PoolChain2Get(c2Pool2, c2NextId)
                    IN /\ c2Paths' = <<[g.obj EXCEPT !.Chain = <<0>>]>>
                       /\ c2Pool2' = g.pool2
                       /\ c2NextId' = g.nextId
                       /\ c2Taken' = {g.obj.id}
                       /\ c2Ret' = <<c2Subs[1].Len, c2Subs[1].Len, 0, 0, 0, 0>>
               ELSE /\ c2Paths' = <<>>
                    /\ c2Ret' = <<0, 0, 0, 0, 0, 0>>
                    /\ UNCHANGED <<c2Pool2, c2NextId, c2Taken>>
            /\ UNCHANGED <<c2I, c2Maxscores, c2MaxscoresIdxs>>
       ELSE /\ c2Pc' = "score"
            /\ c2I' = 1
            /\ c2Maxscores' = <<c2Subs[1].Len>>
            /\ c2MaxscoresIdxs' = <<0>>
            /\ UNCHANGED <<c2Paths, c2Ret, c2Pool2, c2NextId, c2Taken>>
    /\ UNCHANGED <<c2Opt, c2Subs, c2M, c2Mi, c2Bounds, c2Pool, c2Calls>>
    /\ UNCHANGED notChain2

\* one iteration of "for i = 1; i < n; i++"
ChainScore ==
    /\ c2Pc = "score"
    /\ c2I < Len(c2Subs)
    /\ LET r == BandScan(c2Subs, c2Maxscores, c2Opt, c2I, 1,
                         [m |-> At(c2Subs, c2I).Len, mj |-> c2I])
       IN /\ c2Maxscores' = Append(c2Maxscores, r.m)
          /\ c2MaxscoresIdxs' = Append(c2MaxscoresIdxs, r.mj)
          /\ c2M' = IF r.m > c2M THEN r.m ELSE c2M
          /\ c2Mi' = IF r.m > c2M THEN c2I ELSE c2Mi
    /\ c2I' = c2I + 1
    /\ UNCHANGED <<c2Pc, c2Opt, c2Subs, c2Paths, c2Bounds, c2Ret, c2Pool2,
                   c2Pool, c2Taken, c2NextId, c2Calls>>
    /\ UNCHANGED notChain2

\* after the scoring loop: the early quit, or chainARegion from Mi
ChainBacktrack ==
    /\ c2Pc = "score"
    /\ c2I = Len(c2Subs)
    /\ c2Pc' = "done"
    /\ IF c2M < EarlyQuitScore
       THEN /\ c2Paths' = <<>>
            /\ c2Ret' = <<0, 0, 0, 0, 0, 0>>
            /\ UNCHANGED <<c2Bounds, c2Pool2, c2Pool, c2Taken, c2NextId>>
       ELSE LET r == chainARegion(c2Subs, c2Maxscores, c2MaxscoresIdxs, 0,
                                  Len(c2Subs) - 1, c2Opt.MinScore, c2Mi,
                                  [paths |-> <<>>, bounds |-> <<>>,
                                   nMatchedBases |-> 0, nAlignedBases |-> 0,
                                   ret |-> <<>>, pool2 |-> c2Pool2,
                                   pool |-> c2Pool, taken |-> {},
                                   nextId |-> c2NextId])
            IN /\ c2Paths' = r.paths
               /\ c2Bounds' = r.bounds
               /\ c2Ret' = <<r.nMatchedBases, r.nAlignedBases, r.ret[2],
                             r.ret[3], r.ret[4], r.ret[5]>>
               /\ c2Pool2' = r.pool2
               /\ c2Pool' = r.pool
               /\ c2Taken' = r.taken
               /\ c2NextId' = r.nextId
    /\ UNCHANGED <<c2Opt, c2Subs, c2I, c2Maxscores, c2MaxscoresIdxs, c2M, c2Mi,
                   c2Calls>>
    /\ UNCHANGED notChain2

NextChain2 == ChainEnter \/ ChainScore \/ ChainBacktrack

SpecChain2 == InitChain2 /\ [][NextChain2]_vars

\* ---- calls of Chain that follow one another, the caller recycling the
\* result of each

\* how many calls follow one another
MaxCalls == 2

\* how many anchors a call is given when calls follow one another
MaxPoolAnchors == 3

\* the anchors of these calls
PoolPairChoices ==
    {[QBegin |-> 100, TBegin |-> 100, Len |-> 90],
     [QBegin |-> 130, TBegin |-> 130, Len |-> 25],
     [QBegin |-> 140, TBegin |-> 400, Len |-> 25],
     [QBegin |-> 150, TBegin |-> 180, Len |-> 20],
     [QBegin |-> 300, TBegin |-> 300, Len |-> 120]}

\* the anchor lists of these calls, sorted
PoolCallChoices ==
    UNION {{s \in [1..n -> PoolPairChoices] :
               \A i \in 1..(n - 1) : PairBefore(s[i], s[i + 1])} :
           n \in 1..MaxPoolAnchors}

InitChainPool ==
    /\ CallBegins
    /\ c2Opt = [MaxGap |-> DefaultMaxGap, MinScore |-> DefaultMinScore,
                MaxDistance |-> DefaultMaxDistance, Band |-> DefaultBand]
    /\ c2Subs \in PoolCallChoices
    /\ c2Pool2 = <<>>
    /\ c2Pool = <<>>
    /\ c2NextId = 1
    /\ c2Calls = 1
    /\ NotChain2Off

\* RecycleChaining2Result: every chain of the list goes to poolChain2
RecycleChaining2Result ==
    /\ c2Pc = "done"
    /\ c2Pc' = "recycled"
    /\ c2Pool2' = c2Pool2 \o c2Paths
    /\ c2Paths' = <<>>
    /\ UNCHANGED <<c2Opt, c2Subs, c2I, c2Maxscores, c2MaxscoresIdxs, c2M, c2Mi,
                   c2Bounds, c2Ret, c2Pool, c2Taken, c2NextId, c2Calls>>
    /\ UNCHANGED notChain2

\* the next call of Chain on the same Chainer2; the garbage collector may
\* have emptied poolChain2 in between
ChainAgain ==
    /\ c2Pc = "recycled"
    /\ c2Calls < MaxCalls
    /\ c2Pc' = "enter"
    /\ c2Subs' \in PoolCallChoices
    /\ \E gc \in BOOLEAN : c2Pool2' = IF gc THEN <<>> ELSE c2Pool2
    /\ c2I' = 0
    /\ c2Maxscores' = <<>>
    /\ c2MaxscoresIdxs' = <<>>
    /\ c2M' = 0
    /\ c2Mi' = 0
    /\ c2Bounds' = <<>>
    /\ c2Ret' = <<>>
    /\ c2Taken' = {}
    /\ c2Calls' = c2Calls + 1
    /\ UNCHANGED <<c2Opt, c2Paths, c2Pool, c2NextId>>
    /\ UNCHANGED notChain2

NextChainPool ==
    \/ ChainEnter
    \/ ChainScore
    \/ ChainBacktrack
    \/ RecycleChaining2Result
    \/ ChainAgain

SpecChainPool == InitChainPool /\ [][NextChainPool]_vars

\* ---- what the claims about Chainer2 speak of

\* the predecessors the scoring loop accepts for anchor i
ValidPredecessors(i) ==
    {j \in Max(0, i - c2Opt.Band)..(i - 1) :
        /\ At(c2Subs, j).TBegin <= At(c2Subs, i).TBegin
        /\ distance2(At(c2Subs, i), At(c2Subs, j)) <= c2Opt.MaxDistance
        /\ gap2(At(c2Subs, i), At(c2Subs, j)) <= c2Opt.MaxGap}

\* the largest number of a non-empty set of integers
MaxOf(S) == CHOOSE m \in S : \A x \in S : x <= m

\* the anchors the scoring loop has scored, the first included
Scored == 0..(Len(c2Maxscores) - 1)

\* C17: for every anchor i >= 1 the stored best score equals
\* max(Len(i), max over the valid predecessors j in i-Band..i-1 of
\* best[j] + Len(i) - gap(i,j)); best[0] = Len(0).
C17_BestScoreRecurrence ==
    \A i \in Scored :
        At(c2Maxscores, i) =
            IF i = 0 THEN At(c2Subs, 0).Len
            ELSE MaxOf({At(c2Subs, i).Len} \cup
                       {At(c2Maxscores, j) + At(c2Subs, i).Len
                            - gap2(At(c2Subs, i), At(c2Subs, j)) :
                        j \in ValidPredecessors(i)})

\* the recurrence the code computes: the length added to best[j] is that of
\* the predecessor j
BestScoreAddsPredecessorLen ==
    \A i \in Scored :
        At(c2Maxscores, i) =
            IF i = 0 THEN At(c2Subs, 0).Len
            ELSE MaxOf({At(c2Subs, i).Len} \cup
                       {At(c2Maxscores, j) + At(c2Subs, j).Len
                            - gap2(At(c2Subs, i), At(c2Subs, j)) :
                        j \in ValidPredecessors(i)})

\* the call was given two anchors or more and has returned
ChainReturned == c2Pc = "done" /\ Len(c2Subs) >= 2

\* C18: for two or more anchors, Chain returns no chain if and only if the
\* maximum score over all anchors, the first included, is below 100; when
\* it is not, the backtrack starts from an anchor holding the maximum.
C18_EarlyQuitOnGlobalMax ==
    ChainReturned =>
        LET top == MaxOf({At(c2Maxscores, i) : i \in Scored})
        IN /\ c2Paths = <<>> <=> top < EarlyQuitScore
           /\ top >= EarlyQuitScore =>
                /\ At(c2Maxscores, c2Mi) = top
                /\ c2Paths # <<>>
                /\ c2Paths[1].Chain[Len(c2Paths[1].Chain)] = c2Mi

\* what the code does: the maximum is taken over the anchors from the
\* second on
EarlyQuitOnMaxWithoutFirst ==
    ChainReturned =>
        LET top == MaxOf({At(c2Maxscores, i) : i \in Scored \ {0}})
        IN /\ c2Paths = <<>> <=> top < EarlyQuitScore
           /\ top >= EarlyQuitScore =>
                /\ At(c2Maxscores, c2Mi) = top
                /\ c2Paths # <<>>
                /\ c2Paths[1].Chain[Len(c2Paths[1].Chain)] = c2Mi

\* C19: any two Chain2Results of one call have disjoint query intervals
\* and disjoint target intervals, one lying strictly before the other on
\* both axes.
C19_ChainsDoNotOverlap ==
    \A a, b \in 1..Len(c2Paths) :
        a # b =>
            \/ /\ c2Paths[a].QEnd < c2Paths[b].QBegin
               /\ c2Paths[a].TEnd < c2Paths[b].TBegin
            \/ /\ c2Paths[b].QEnd < c2Paths[a].QBegin
               /\ c2Paths[b].TEnd < c2Paths[a].TBegin

\* a call has returned two chains, one of them of two anchors, and an
\* anchor that overlaps one of them was left out
C19_Witness ==
    /\ ChainReturned
    /\ Len(c2Paths) = 2
    /\ \E a \in 1..Len(c2Paths) : Len(c2Paths[a].Chain) = 2
    /\ \E i \in Scored :
         /\ \A a \in 1..Len(c2Paths) :
              \A k \in 1..Len(c2Paths[a].Chain) : c2Paths[a].Chain[k] # i
         /\ At(c2Maxscores, i) >= c2Opt.MinScore

\* the bounds of the Chain2Results
PathBoxes ==
    {<<c2Paths[a].QBegin, c2Paths[a].QEnd, c2Paths[a].TBegin, c2Paths[a].TEnd>> :
        a \in 1..Len(c2Paths)}

\* C20: every 4-tuple appended to the bounds list is the (QBegin, QEnd,
\* TBegin, TEnd) of an emitted Chain2Result, also when the backtrack of a
\* region adds no anchor at all: an anchor is left out only for overlapping
\* a chain that was emitted.
C20_BoundsAreEmittedChains ==
    \A k \in 1..Len(c2Bounds) : c2Bounds[k] \in PathBoxes

\* what the code appends: the bounds of an emitted chain, or four zeros
\* when the backtrack recorded no anchor
BoundsAreChainsOrZeros ==
    \A k \in 1..Len(c2Bounds) : c2Bounds[k] \in PathBoxes \cup {<<0, 0, 0, 0>>}

\* the fields a chain over the anchors of the call must carry
FieldsOfChain(p) ==
    LET first == At(c2Subs, p.Chain[1])
        last  == At(c2Subs, p.Chain[Len(p.Chain)])
    IN /\ p.QBegin = first.QBegin
       /\ p.TBegin = first.TBegin
       /\ p.QEnd = last.QBegin + last.Len - 1
       /\ p.TEnd = last.TBegin + last.Len - 1
       /\ p.AlignedBases = p.QEnd - p.QBegin + 1
       /\ 0 < p.MatchedBases
       /\ p.MatchedBases <= p.AlignedBases

\* C21: every Chain2Result a call returns, also a call given a single
\* anchor, has its bounds at the begin of its first and the end of its last
\* anchor, AlignedBases = QEnd - QBegin + 1 and 0 < MatchedBases <=
\* AlignedBases; no field is left over from an earlier use of the object.
C21_ChainResultFields ==
    c2Pc = "done" =>
        \A a \in 1..Len(c2Paths) :
            /\ c2Paths[a].Chain # <<>>
            /\ FieldsOfChain(c2Paths[a])

\* what the code gives: the fields are written when the call was given two
\* anchors or more
ChainResultFieldsOfSeveralAnchors ==
    ChainReturned =>
        \A a \in 1..Len(c2Paths) :
            /\ c2Paths[a].Chain # <<>>
            /\ FieldsOfChain(c2Paths[a])

\* a call given one anchor returns an object that still carries the bounds
\* an earlier call wrote into it
StaleFieldsReturned ==
    /\ c2Pc = "done"
    /\ Len(c2Subs) = 1
    /\ Len(c2Paths) = 1
    /\ c2Paths[1].QEnd > c2Subs[1].QBegin + c2Subs[1].Len - 1

\* C22: in every Chain2Result the anchor indices are strictly increasing,
\* the QBegin of the anchors strictly increasing and their TBegin
\* non-decreasing along the chain.
C22_ChainStrictlyMonotonic ==
    \A a \in 1..Len(c2Paths) :
        \A k \in 1..(Len(c2Paths[a].Chain) - 1) :
            LET x == c2Paths[a].Chain[k]
                y == c2Paths[a].Chain[k + 1]
            IN /\ x < y
               /\ At(c2Subs, x).QBegin < At(c2Subs, y).QBegin
               /\ At(c2Subs, x).TBegin <= At(c2Subs, y).TBegin

\* what the code gives: two anchors of a chain may begin at the same query
\* position
ChainMonotonic ==
    \A a \in 1..Len(c2Paths) :
        \A k \in 1..(Len(c2Paths[a].Chain) - 1) :
            LET x == c2Paths[a].Chain[k]
                y == c2Paths[a].Chain[k + 1]
            IN /\ x < y
               /\ At(c2Subs, x).QBegin <= At(c2Subs, y).QBegin
               /\ At(c2Subs, x).TBegin <= At(c2Subs, y).TBegin

\* how many objects of a list have the identity id
TimesIn(list, id) == Cardinality({a \in 1..Len(list) : list[a].id = id})

\* C27: every object taken from poolChain2 during a call is, when the call
\* returns, either exactly once in the returned list or put back exactly
\* once into poolChain2, and in no other pool: with a chain emitted, with a
\* backtrack that recorded no anchor, with the predecessor outside the
\* region.
C27_TakenChainsReturnedOrPutBack ==
    c2Pc = "done" =>
        \A id \in c2Taken :
            /\ TimesIn(c2Paths, id) + TimesIn(c2Pool2, id) = 1
            /\ TimesIn(c2Pool, id) = 0

\* what the code gives: an object is returned once, or put into poolChain,
\* or kept nowhere; none goes back to poolChain2 during the call
TakenChainsReturnedOrLost ==
    c2Pc = "done" =>
        \A id \in c2Taken :
            /\ TimesIn(c2Paths, id) + TimesIn(c2Pool, id) <= 1
            /\ TimesIn(c2Pool2, id) = 0

\* a backtrack that recorded no anchor: its object is in no list and in no
\* pool
ChainObjectLost ==
    /\ c2Pc = "done"
    /\ \E id \in c2Taken :
          TimesIn(c2Paths, id) + TimesIn(c2Pool, id) + TimesIn(c2Pool2, id) = 0

\* the predecessor outside the region: the object is in poolChain
ChainObjectInOtherPool ==
    /\ c2Pc = "done"
    /\ \E id \in c2Taken : TimesIn(c2Pool, id) = 1

\* ---- what the claims about the fragments of a target speak of

\* the fragments of the running HSP that the loop has taken and assigned to
\* a contig
FragsAssigned ==
    {k \in 1..alNext : ContigOf(alFrags[k], alGenome).iSeq >= 0}

\* fragment f, assigned to the contig that begins at offBegin, is inside
\* that contig after the conversion c, its query coordinates have moved as
\* its target coordinates were clipped, and its target range meets the span
\* of the contig
RectifiedInto(f, c, offBegin) ==
    LET last == alGenome.SeqSizes[c.contig + 1] - 1
        dB   == c.TBegin - (f[1] - offBegin)
        dE   == c.TEnd - (f[2] - offBegin)
    IN /\ 0 <= c.TBegin
       /\ c.TBegin <= c.TEnd
       /\ c.TEnd <= last
       /\ IF alGenome.rc
          THEN /\ c.QEnd = FragTe(f, alGenome) - dB
               /\ c.QBegin = FragTb(f, alGenome) - dE
          ELSE /\ c.QBegin = FragTb(f, alGenome) + dB
               /\ c.QEnd = FragTe(f, alGenome) + dE
       /\ offBegin = ContigStart(alGenome.SeqSizes, alGenome.ci, c.contig)
       /\ f[1] <= offBegin + last
       /\ f[2] >= offBegin

\* C23: after the rectification every kept fragment has 0 <= TBegin <= TEnd
\* <= SeqSizes[iSeq] - 1 in the contig it was assigned to, on both strands;
\* a clipped target coordinate moved the matching query coordinate by the
\* same amount; the contig is the one whose span hosts the target range.
C23_FragmentsInsideTheirContig ==
    \A k \in FragsAssigned :
        LET at == ContigOf(alFrags[k], alGenome)
        IN RectifiedInto(alFrags[k],
                         ConvertFrag(alFrags[k], alGenome, at.iSeq, at.offBegin),
                         at.offBegin)

\* the fragment lies inside the interval between two contigs
InsideAnInterval(f) ==
    \E j \in 1..(Len(alGenome.SeqSizes) - 1) :
        /\ f[1] > ContigStart(alGenome.SeqSizes, alGenome.ci, j - 1)
                    + alGenome.SeqSizes[j] - 1
        /\ f[2] < ContigStart(alGenome.SeqSizes, alGenome.ci, j)

\* what the code gives: the fragments that reach into a contig are
\* rectified into it
FragmentsMeetingAContigInsideIt ==
    \A k \in FragsAssigned :
        ~InsideAnInterval(alFrags[k]) =>
            LET at == ContigOf(alFrags[k], alGenome)
            IN RectifiedInto(alFrags[k],
                             ConvertFrag(alFrags[k], alGenome, at.iSeq,
                                         at.offBegin),
                             at.offBegin)

\* the fragments kept in the SimilarityDetails of the target: (detail,
\* position)
KeptFragments ==
    UNION {{<<i, j>> : j \in 1..Len(alSds[i].Chains)} : i \in 1..Len(alSds)}

BoxOfFragment(x) ==
    LET c == alSds[x[1]].Chains[x[2]]
    IN <<c.QBegin, c.QEnd, c.TBegin, c.TEnd>>

\* C24: no two fragments kept in the SimilarityDetails of one target have
\* identical (QBegin, QEnd, TBegin, TEnd), also when a fragment opens a new
\* SimilarityDetail because it lies in another contig than the one before.
C24_NoDuplicateFragments ==
    \A x, y \in KeptFragments : x # y => BoxOfFragment(x) # BoxOfFragment(y)

\* what the code gives: the fragments recorded in bounds are different from
\* one another
BoundsHaveNoDuplicates ==
    \A i, j \in 1..Len(alBounds) : i # j => alBounds[i] # alBounds[j]

\* a fragment that opened a SimilarityDetail on a change of contig is kept
\* a second time by a later HSP
FragmentKeptTwiceAcrossHSPs ==
    /\ alHsp = 2
    /\ alPc = "done"
    /\ \E x \in KeptFragments :
         /\ x[1] < Len(alSds)
         /\ BoxOfFragment(x) = BoxOfFragment(<<Len(alSds), 1>>)
         /\ \A y, z \in KeptFragments :
              (y[1] < Len(alSds) /\ z[1] < Len(alSds) /\ y # z) =>
                  BoxOfFragment(y) # BoxOfFragment(z)

\* ---- what the claims about the records and their pools speak of

\* the records an accumulation task is still reading
RecordsRead == {t.obj : t \in bdTasks}

\* the records an ingester has taken from the pool and is filling
RecordsOfIngesters ==
    {bdIng[f].obj : f \in {g \in BuildFileIds : bdIng[g].st \in {"read", "masked"}}}

\* C28: in buildAnIndex, under every interleaving, a genome record and its
\* mask output (Kmers, Locses) are not recycled to their pools, and so not
\* reused by an ingester, while an accumulation task of the collector is
\* still reading them.
C28_NotRecycledWhileRead ==
    /\ RecordsRead \cap bdPool = {}
    /\ RecordsRead \cap RecordsOfIngesters = {}

\* ------------------------------------------------------------------------
\* buildAnIndex from its first to its last line: the tasks of steps 1 and 2
\* as above, then the info writer, the chunk writers of step 3, the waits
\* for the writers and the progress task

\* how many input files a batch has at most here
MaxFairFiles == 2

\* how many chunk files an index has at most here
MaxFairChunks == 2

\* the variables of the parts that are not buildAnIndex
notBuildFinish == <<scrVars, cdVars, pkVars, ckVars, flVars, alVars, tkVars,
                    c2Vars, csVars, saVars>>

\* the chunk ranges are well-formed: no range begins behind its end
RangesWellFormed(nMasks, chunks) ==
    \A j \in 0..(chunks - 1) :
        ChunkBegin(j, nMasks, chunks) <= ChunkEnd(j, nMasks, chunks)

InitBuildAll ==
    /\ bdPc = "run"
    /\ \E n \in 1..MaxFairFiles : bdFiles \in [1..n -> BOOLEAN]
    /\ bdCPUs \in 1..MaxCPUs
    /\ bdNextFile = 0
    /\ bdIng = [f \in BuildFileIds |-> [st |-> "idle", obj |-> 0]]
    /\ bdObjs = [o \in BuildFileIds |->
                    [file |-> 0, dirty |-> FALSE, made |-> FALSE]]
    /\ bdPool = {}
    /\ bdGenomes = <<>>
    /\ bdGenomesClosed = FALSE
    /\ bdGenomesW = <<>>
    /\ bdGenomesWClosed = FALSE
    /\ bdColPc = "recv"
    /\ bdColObj = 0
    /\ bdRefIdx = 0
    /\ bdTasks = {}
    /\ bdDatas = [i \in 0..(BuildMasks - 1) |-> {}]
    /\ bdWriter = [pc |-> "recv", obj |-> 0]
    /\ bdReceived = <<>>
    /\ bdWritten = <<>>
    /\ fnPc = "ingest"
    /\ fnVerbose \in BOOLEAN
    /\ fnChunks \in {c \in 1..MaxFairChunks : RangesWellFormed(BuildMasks, c)}
    /\ fnJ = 0
    /\ fnChunkTasks = {}
    /\ fnChunkFiles = {}
    /\ fnInfo = "none"
    /\ fnDuration = 0
    /\ fnDurationClosed = FALSE
    /\ fnProgress = (IF fnVerbose THEN "recv" ELSE "none")
    /\ fnBar = 0
    /\ ScrOff /\ CodecOff /\ PackOff /\ ChunksOff /\ FilterOff /\ AlignOff
    /\ TokensOff /\ Chain2Off /\ ClearOff /\ SearchAllOff

\* the genome writer recycles the record; "if opt.Verbose" it goes on to
\* send the duration
FinWriterRecycle ==
    /\ bdPc = "run"
    /\ bdWriter.pc = "recycle"
    /\ bdPool' = bdPool \cup {bdWriter.obj}
    /\ bdWriter' = [pc |-> IF fnVerbose THEN "progress" ELSE "recv", obj |-> 0]
    /\ UNCHANGED <<bdPc, bdFiles, bdCPUs, bdNextFile, bdIng, bdObjs, bdGenomes,
                   bdGenomesClosed, bdGenomesW, bdGenomesWClosed, bdColPc,
                   bdColObj, bdRefIdx, bdTasks, bdDatas, bdReceived, bdWritten>>
    /\ UNCHANGED <<fnVars, notBuildFinish>>

\* "chDuration <- ..." of the genome writer; a send on the closed channel
\* panics
FinWriterProgress ==
    /\ bdPc = "run"
    /\ bdWriter.pc = "progress"
    /\ IF fnDurationClosed
       THEN /\ bdPc' = "panic"
            /\ UNCHANGED <<bdWriter, fnDuration>>
       ELSE /\ fnDuration < bdCPUs
            /\ fnDuration' = fnDuration + 1
            /\ bdWriter' = [pc |-> "recv", obj |-> 0]
            /\ UNCHANGED bdPc
    /\ UNCHANGED <<bdFiles, bdCPUs, bdNextFile, bdIng, bdObjs, bdPool,
                   bdGenomes, bdGenomesClosed, bdGenomesW, bdGenomesWClosed,
                   bdColPc, bdColObj, bdRefIdx, bdTasks, bdDatas, bdReceived,
                   bdWritten>>
    /\ UNCHANGED <<fnPc, fnVerbose, fnChunks, fnJ, fnChunkTasks, fnChunkFiles,
                   fnInfo, fnDurationClosed, fnProgress, fnBar>>
    /\ UNCHANGED notBuildFinish

\* the progress task: "for t := range chDuration { bar.Increment()"
FinProgress ==
    /\ bdPc = "run"
    /\ fnProgress = "recv"
    /\ fnDuration > 0
    /\ fnDuration' = fnDuration - 1
    /\ fnBar' = fnBar + 1
    /\ UNCHANGED <<fnPc, fnVerbose, fnChunks, fnJ, fnChunkTasks, fnChunkFiles,
                   fnInfo, fnDurationClosed, fnProgress>>
    /\ UNCHANGED <<bdVars, notBuildFinish>>

\* chDuration is closed and empty: "doneDuration <- 1"
FinProgressDone ==
    /\ bdPc = "run"
    /\ fnProgress = "recv"
    /\ fnDuration = 0
    /\ fnDurationClosed
    /\ fnProgress' = "done"
    /\ UNCHANGED <<fnPc, fnVerbose, fnChunks, fnJ, fnChunkTasks, fnChunkFiles,
                   fnInfo, fnDuration, fnDurationClosed, fnBar>>
    /\ UNCHANGED <<bdVars, notBuildFinish>>

\* "<-done": all k-mer data are collected; the info writer is started
FinCollected ==
    /\ bdPc = "run"
    /\ fnPc = "ingest"
    /\ bdGenomesClosed
    /\ bdColPc = "done"
    /\ fnPc' = "chunks"
    /\ fnInfo' = "run"
    /\ UNCHANGED <<fnVerbose, fnChunks, fnJ, fnChunkTasks, fnChunkFiles,
                   fnDuration, fnDurationClosed, fnProgress, fnBar>>
    /\ UNCHANGED <<bdVars, notBuildFinish>>

\* the info writer writes the summary: "doneInfo <- 1"
FinInfoWrite ==
    /\ bdPc = "run"
    /\ fnInfo = "run"
    /\ fnInfo' = "done"
    /\ UNCHANGED <<fnPc, fnVerbose, fnChunks, fnJ, fnChunkTasks, fnChunkFiles,
                   fnDuration, fnDurationClosed, fnProgress, fnBar>>
    /\ UNCHANGED <<bdVars, notBuildFinish>>

\* "for j = 0; j < chunks; j++ { wg.Add(1); tokens <- 1; go func(chunk, ..."
FinChunkStart ==
    /\ bdPc = "run"
    /\ fnPc = "chunks"
    /\ fnJ < fnChunks
    /\ Cardinality(fnChunkTasks) + Cardinality(IngestersRunning) < bdCPUs
    /\ fnChunkTasks' = fnChunkTasks \cup {fnJ}
    /\ fnJ' = fnJ + 1
    /\ UNCHANGED <<fnPc, fnVerbose, fnChunks, fnChunkFiles, fnInfo, fnDuration,
                   fnDurationClosed, fnProgress, fnBar>>
    /\ UNCHANGED <<bdVars, notBuildFinish>>

\* a chunk writer: kv.WriteKVData; wg.Done(); <-tokens
FinChunkWrite ==
    /\ bdPc = "run"
    /\ \E c \in fnChunkTasks :
         /\ fnChunkFiles' = fnChunkFiles \cup {c}
         /\ fnChunkTasks' = fnChunkTasks \ {c}
    /\ UNCHANGED <<fnPc, fnVerbose, fnChunks, fnJ, fnInfo, fnDuration,
                   fnDurationClosed, fnProgress, fnBar>>
    /\ UNCHANGED <<bdVars, notBuildFinish>>

\* "wg.Wait()": all k-mer-value data are saved
FinChunksWaited ==
    /\ bdPc = "run"
    /\ fnPc = "chunks"
    /\ fnJ = fnChunks
    /\ fnChunkTasks = {}
    /\ fnPc' = "waitGW"
    /\ UNCHANGED <<fnVerbose, fnChunks, fnJ, fnChunkTasks, fnChunkFiles, fnInfo,
                   fnDuration, fnDurationClosed, fnProgress, fnBar>>
    /\ UNCHANGED <<bdVars, notBuildFinish>>

\* "<-doneGW": all genome data are saved
FinGenomesSaved ==
    /\ bdPc = "run"
    /\ fnPc = "waitGW"
    /\ bdWriter.pc = "done"
    /\ fnPc' = "waitInfo"
    /\ UNCHANGED <<fnVerbose, fnChunks, fnJ, fnChunkTasks, fnChunkFiles, fnInfo,
                   fnDuration, fnDurationClosed, fnProgress, fnBar>>
    /\ UNCHANGED <<bdVars, notBuildFinish>>

\* "<-doneInfo", and "if opt.Verbose { close(chDuration)"
FinInfoSaved ==
    /\ bdPc = "run"
    /\ fnPc = "waitInfo"
    /\ fnInfo = "done"
    /\ fnPc' = (IF fnVerbose THEN "progress" ELSE "returned")
    /\ fnDurationClosed' = fnVerbose
    /\ UNCHANGED <<fnVerbose, fnChunks, fnJ, fnChunkTasks, fnChunkFiles, fnInfo,
                   fnDuration, fnProgress, fnBar>>
    /\ UNCHANGED <<bdVars, notBuildFinish>>

\* "<-doneDuration", and the function returns
FinReturn ==
    /\ bdPc = "run"
    /\ fnPc = "progress"
    /\ fnProgress = "done"
    /\ fnPc' = "returned"
    /\ UNCHANGED <<fnVerbose, fnChunks, fnJ, fnChunkTasks, fnChunkFiles, fnInfo,
                   fnDuration, fnDurationClosed, fnProgress, fnBar>>
    /\ UNCHANGED <<bdVars, notBuildFinish>>

NextBuildAll ==
    \/ IngestStart \/ IngestMask \/ IngestSkip \/ IngestSend \/ MainClose
    \/ CollectRecv \/ CollectSend \/ TaskAppend \/ TaskPanic \/ CollectWait
    \/ CollectClose \/ WriterWrite \/ FinWriterRecycle \/ FinWriterProgress
    \/ WriterDone \/ FinProgress \/ FinProgressDone \/ FinCollected
    \/ FinInfoWrite \/ FinChunkStart \/ FinChunkWrite \/ FinChunksWaited
    \/ FinGenomesSaved \/ FinInfoSaved \/ FinReturn

\* every task that can take a step eventually takes one
SpecBuildAll == InitBuildAll /\ [][NextBuildAll]_vars /\ WF_vars(NextBuildAll)

\* ---- what the claims about the whole of buildAnIndex speak of

\* no task is about to send on a channel that is closed
NoSenderAfterClose ==
    /\ bdGenomesClosed => \A f \in BuildFileIds : bdIng[f].st \in {"done"}
    /\ bdGenomesWClosed => bdColPc = "done"
    /\ fnDurationClosed => bdWriter.pc = "done"

\* all genomes and all chunk files are written
AllWritten ==
    /\ {bdWritten[i] : i \in 1..Len(bdWritten)} = {f \in BuildFileIds : bdFiles[f]}
    /\ fnChunkFiles = 0..(fnChunks - 1)

BuildReturnsUnlessATaskPanics ==
    /\ <>(fnPc = "returned" \/ bdPc = "panic")
    /\ [](fnPc # "off" => NoSenderAfterClose)
    /\ [](fnPc = "returned" => fnChunkFiles = 0..(fnChunks - 1))
    /\ [](fnPc = "returned" => Len(bdWritten) = Cardinality({f \in BuildFileIds : bdFiles[f]}))

\* a verbose build of two files has returned, the bar incremented twice
BuildReturned ==
    /\ fnPc = "returned"
    /\ fnVerbose
    /\ fnBar = 2
    /\ fnChunkFiles = {0, 1}

\* an accumulation task has panicked
BuildPanicked == bdPc = "panic" /\ fnPc = "ingest"

\* ------------------------------------------------------------------------
\* ClearSubstrPairs, called by itself

\* how many anchors the list has at most
MaxClearSubs == 3

\* the sample of anchors, none longer than k = MaxK: a long one at query
\* position 0, two nested in it, one that is nested in it in the query but
\* lies elsewhere in the target, one that overlaps it, and far away a long
\* one with one nested in it
ClearChoices ==
    {[QBegin |-> 0, TBegin |-> 100, Len |-> 32],
     [QBegin |-> 0, TBegin |-> 100, Len |-> 15],
     [QBegin |-> 5, TBegin |-> 105, Len |-> 15],
     [QBegin |-> 3, TBegin |-> 300, Len |-> 15],
     [QBegin |-> 10, TBegin |-> 110, Len |-> 32],
     [QBegin |-> 60, TBegin |-> 160, Len |-> 32],
     [QBegin |-> 60, TBegin |-> 160, Len |-> 16]}

InitClear ==
    /\ csPc = "call"
    /\ csK = MaxK
    /\ \E n \in 0..MaxClearSubs : csSubs \in [1..n -> ClearChoices]
    /\ csOut = <<>>
    /\ NotClearOff

\* the whole call: the sort, the marking and the compaction
ClearCall ==
    /\ csPc = "call"
    /\ csPc' = "done"
    /\ \E sorted \in SubSortOutcomes(csSubs) :
         csOut' = ClearSubstrPairs(sorted, csK)
    /\ UNCHANGED <<csSubs, csK>>
    /\ UNCHANGED notClear

NextClear == ClearCall

SpecClear == InitClear /\ [][NextClear]_vars

\* the query and the target interval of v lie in those of p
ContainedIn(v, p) ==
    /\ p.QBegin <= v.QBegin
    /\ v.QBegin + v.Len <= p.QBegin + p.Len
    /\ p.TBegin <= v.TBegin
    /\ v.TBegin + v.Len <= p.TBegin + p.Len

\* how often the anchor x stands in the list
CountIn(list, x) == Cardinality({i \in 1..Len(list) : list[i] = x})

\* C25: for anchors no longer than k, ClearSubstrPairs leaves a non-empty
\* sub-list of its input, sorted by QBegin ascending then query end
\* descending, in which no anchor is contained (query and target interval)
\* in another one that remains; it removes only anchors contained in some
\* anchor of the input; fewer than two anchors are left unchanged.
C25_ClearLeavesTheOutermostAnchors ==
    csPc = "done" =>
        /\ Len(csSubs) < 2 => csOut = csSubs
        /\ Len(csSubs) >= 1 => Len(csOut) >= 1
        /\ \A i \in 1..Len(csOut) :
              CountIn(csOut, csOut[i]) <= CountIn(csSubs, csOut[i])
        /\ \A i \in 1..(Len(csOut) - 1) :
              \/ csOut[i].QBegin < csOut[i + 1].QBegin
              \/ /\ csOut[i].QBegin = csOut[i + 1].QBegin
                 /\ csOut[i].Len >= csOut[i + 1].Len
        /\ \A i, j \in 1..Len(csOut) :
              i # j => ~ContainedIn(csOut[i], csOut[j])
        /\ \A i \in 1..Len(csSubs) :
              CountIn(csOut, csSubs[i]) < CountIn(csSubs, csSubs[i]) =>
                  \E j \in 1..Len(csSubs) :
                      j # i /\ ContainedIn(csSubs[i], csSubs[j])

\* a call on three anchors has removed one that is nested in the first, with
\* an anchor that does not contain it standing between the two, and has
\* kept the other two
C25_Witness ==
    /\ csPc = "done"
    /\ Len(csSubs) = 3
    /\ Len(csOut) = 2
    /\ csOut[1].QBegin = 0
    /\ csOut[2].QBegin = 3
    /\ \E i \in 1..3 : csSubs[i].QBegin = 5

\* ------------------------------------------------------------------------
\* Index.Search from its first to its last line: the searcher tasks and
\* their collector, then the alignment tasks and their collector

\* how many targets survive the prefilter at most
MaxAlignTargets == 2

\* the sample of indexes: how many genome batches the index has, and how
\* many files may be opened beyond the seed files (MaxOpenFiles is at least
\* 2 more than the number of chunks)
GenomeBatchChoices == {1, 2}

OpenSlotChoices == {2, 3, 4}

\* how many chunk searchers the index has at most here
MaxSeedFiles == 2

\* n of NewIndexSearcher: (MaxOpenFiles - len(fileSeeds)) / GenomeBatches,
\* halved and cut at NumCPUs when it is 2 or more
ReadersPerBatch(slots, batches, cpus) ==
    IF slots \div batches < 2
    THEN 0
    ELSE Min((slots \div batches) \div 2, cpus)

\* the readers of batch b, n of them
ReadersOf(b, n) == [j \in 1..n |-> <<b, j>>]

\* searchers[iS].Search returns: the binary search for the nearest anchor
\* of kv.Searcher.Search comes to its end
SearchReturns(i) == ~saLoops[i]

\* a searcher whose Search always returns
SearchAlwaysReturns(i) == TRUE

\* what becomes of a target in its alignment task
TargetOutcomes == {"lowscore", "noalign", "lowAF", "ok"}

\* a task that keeps the reader
ReaderKept(pool, b, rdr) == pool

\* "idx.poolGenomeRdrs[refBatch] <- rdr"
ReaderPutBack(pool, b, rdr) == [pool EXCEPT ![b] = Append(@, rdr)]

SaTargetIds == 1..Len(saTargets)

\* the alignment tasks that are running
AlignTasksRunning == {t \in SaTargetIds : saTask[t].st \notin {"none", "done"}}

\* the index after NewIndexSearcher, and a call of Search at its beginning
InitSearchAll ==
    /\ saPc = "start"
    /\ saCPUs \in 1..MaxCPUs
    /\ \E nS \in 1..MaxSeedFiles, slots \in OpenSlotChoices, nB \in GenomeBatchChoices :
         /\ saHasRdrs = (ReadersPerBatch(slots, nB, saCPUs) > 0)
         /\ saPool = [b \in 1..nB |->
                         ReadersOf(b, ReadersPerBatch(slots, nB, saCPUs))]
         /\ saOpenCap = nS + slots
         /\ saOpen = nS + nB * ReadersPerBatch(slots, nB, saCPUs)
         /\ saLoops \in [1..nS -> BOOLEAN]
         /\ saSearcher = [i \in 1..nS |-> "none"]
         /\ saSTokens = [i \in 1..nS |-> 0]
    /\ saPool0 = saPool
    /\ saOpen0 = saOpen
    /\ saCh = 0
    /\ saChClosed = FALSE
    /\ saHits = 0
    /\ saCol = <<"none", "none">>
    /\ saDone = <<0, 0>>
    /\ saTargets = <<>>
    /\ saNext = 0
    /\ saTask = <<>>
    /\ saTokens = 0
    /\ saCh2 = 0
    /\ saCh2Closed = FALSE
    /\ saRs2 = 0
    /\ NotSearchAllOff

\* the query is masked, the first collector is started, and the loop
\* "for iS := 0; iS < nSearchers; iS++" starts one task per searcher
SaFanOut ==
    /\ saPc = "start"
    /\ saPc' = "seeds"
    /\ saCol' = [saCol EXCEPT ![1] = "recv"]
    /\ saSearcher' = [i \in DOMAIN saSearcher |-> "started"]
    /\ UNCHANGED <<saCPUs, saHasRdrs, saPool, saPool0, saOpen, saOpen0,
                   saOpenCap, saLoops, saSTokens, saCh,
                   saChClosed, saHits, saDone, saTargets,
                   saNext, saTask, saTokens, saCh2,
                   saCh2Closed, saRs2>>
    /\ UNCHANGED notSearchAll

\* idx.searcherTokens[iS] <- 1
SaTokenAcquire ==
    /\ saPc = "seeds"
    /\ \E i \in DOMAIN saSearcher :
         /\ saSearcher[i] = "started"
         /\ saSTokens[i] < TokenCap
         /\ saSTokens' = [saSTokens EXCEPT ![i] = @ + 1]
         /\ saSearcher' = [saSearcher EXCEPT ![i] = "searching"]
    /\ UNCHANGED <<saPc, saCPUs, saHasRdrs, saPool, saPool0, saOpen, saOpen0,
                   saOpenCap, saLoops, saCh, saChClosed,
                   saHits, saCol, saDone, saTargets,
                   saNext, saTask, saTokens, saCh2,
                   saCh2Closed, saRs2>>
    /\ UNCHANGED notSearchAll

\* searchers[iS].Search returns; an empty list is recycled, any other is
\* sent on ch, whose capacity is nSearchers (a send on the closed channel
\* panics); then <-idx.searcherTokens[iS] and wg.Done()
SaSearch ==
    /\ saPc = "seeds"
    /\ \E i \in DOMAIN saSearcher, hits \in BOOLEAN :
         /\ saSearcher[i] = "searching"
         /\ SearchReturns(i)
         /\ IF hits /\ saChClosed
            THEN /\ saPc' = "panic"
                 /\ UNCHANGED <<saCh, saSTokens, saSearcher>>
            ELSE /\ saCh' = saCh + (IF hits THEN 1 ELSE 0)
                 /\ saSTokens' = [saSTokens EXCEPT ![i] = @ - 1]
                 /\ saSearcher' = [saSearcher EXCEPT ![i] = "done"]
                 /\ UNCHANGED saPc
    /\ UNCHANGED <<saCPUs, saHasRdrs, saPool, saPool0, saOpen, saOpen0,
                   saOpenCap, saLoops, saChClosed, saHits,
                   saCol, saDone, saTargets, saNext,
                   saTask, saTokens, saCh2, saCh2Closed,
                   saRs2>>
    /\ UNCHANGED notSearchAll

\* the first collector: "for srs := range ch"
SaCollectSeeds ==
    /\ saPc \in {"seeds", "seedsClosed"}
    /\ saCol[1] = "recv"
    /\ saCh > 0
    /\ saCh' = saCh - 1
    /\ saHits' = saHits + 1
    /\ UNCHANGED <<saPc, saCPUs, saHasRdrs, saPool, saPool0, saOpen, saOpen0,
                   saOpenCap, saLoops, saSearcher,
                   saSTokens, saChClosed, saCol, saDone,
                   saTargets, saNext, saTask, saTokens,
                   saCh2, saCh2Closed, saRs2>>
    /\ UNCHANGED notSearchAll

\* ch is closed and empty: the first collector is at "done <- 1"
SaCollectSeedsEnd ==
    /\ saPc \in {"seeds", "seedsClosed"}
    /\ saCol[1] = "recv"
    /\ saCh = 0
    /\ saChClosed
    /\ saCol' = [saCol EXCEPT ![1] = "signal"]
    /\ UNCHANGED <<saPc, saCPUs, saHasRdrs, saPool, saPool0, saOpen, saOpen0,
                   saOpenCap, saLoops, saSearcher,
                   saSTokens, saCh, saChClosed, saHits,
                   saDone, saTargets, saNext, saTask,
                   saTokens, saCh2, saCh2Closed, saRs2>>
    /\ UNCHANGED notSearchAll

\* "wg.Wait(); close(ch)"
SaSeedsJoin ==
    /\ saPc = "seeds"
    /\ \A i \in DOMAIN saSearcher : saSearcher[i] = "done"
    /\ saChClosed' = TRUE
    /\ saPc' = "seedsClosed"
    /\ UNCHANGED <<saCPUs, saHasRdrs, saPool, saPool0, saOpen, saOpen0,
                   saOpenCap, saLoops, saSearcher,
                   saSTokens, saCh, saHits, saCol, saDone,
                   saTargets, saNext, saTask, saTokens,
                   saCh2, saCh2Closed, saRs2>>
    /\ UNCHANGED notSearchAll

\* "<-done"; without results the call returns; otherwise the targets are
\* filtered and sorted, the second collector is started and the loop over
\* the surviving targets begins
SaSeedsDone ==
    /\ saPc = "seedsClosed"
    /\ saCol[1] = "signal"
    /\ saDone' = [saDone EXCEPT ![1] = @ + 1]
    /\ IF saHits = 0
       THEN /\ saPc' = "returned"
            /\ saCol' = [saCol EXCEPT ![1] = "done"]
            /\ UNCHANGED <<saTargets, saTask>>
       ELSE /\ saPc' = "align"
            /\ saCol' = <<"done", "recv">>
            /\ \E n \in 0..MaxAlignTargets :
                 /\ saTargets' \in [1..n -> [batch : DOMAIN saPool,
                                             outcome : TargetOutcomes]]
                 /\ saTask' = [t \in 1..n |-> [st |-> "none", rdr |-> <<>>]]
    /\ UNCHANGED <<saCPUs, saHasRdrs, saPool, saPool0, saOpen, saOpen0,
                   saOpenCap, saLoops, saSearcher,
                   saSTokens, saCh, saChClosed, saHits,
                   saNext, saTokens, saCh2, saCh2Closed,
                   saRs2>>
    /\ UNCHANGED notSearchAll

\* "for _, r := range *rs { tokens <- 1; wg.Add(1); go func(r ..."
SaAlignStart ==
    /\ saPc = "align"
    /\ saNext < Len(saTargets)
    /\ saTokens < saCPUs
    /\ saTokens' = saTokens + 1
    /\ saNext' = saNext + 1
    /\ saTask' = [saTask EXCEPT ![saNext + 1].st = "chain"]
    /\ UNCHANGED <<saPc, saCPUs, saHasRdrs, saPool, saPool0, saOpen, saOpen0,
                   saOpenCap, saLoops, saSearcher,
                   saSTokens, saCh, saChClosed, saHits,
                   saCol, saDone, saTargets, saCh2,
                   saCh2Closed, saRs2>>
    /\ UNCHANGED notSearchAll

\* chainer.Chain(r.Subs); "if r.Score < minChainingScore" the result is
\* recycled and the task ends: the deferred function gives the token back
SaChain ==
    /\ saPc = "align"
    /\ \E t \in SaTargetIds :
         /\ saTask[t].st = "chain"
         /\ IF saTargets[t].outcome = "lowscore"
            THEN /\ saTask' = [saTask EXCEPT ![t].st = "done"]
                 /\ saTokens' = saTokens - 1
            ELSE /\ saTask' = [saTask EXCEPT ![t].st = "reader"]
                 /\ UNCHANGED saTokens
    /\ UNCHANGED <<saPc, saCPUs, saHasRdrs, saPool, saPool0, saOpen, saOpen0,
                   saOpenCap, saLoops, saSearcher,
                   saSTokens, saCh, saChClosed, saHits,
                   saCol, saDone, saTargets, saNext,
                   saCh2, saCh2Closed, saRs2>>
    /\ UNCHANGED notSearchAll

\* "rdr = <-idx.poolGenomeRdrs[refBatch]", or
\* "idx.openFileTokens <- 1" and genome.NewReader
SaTakeReader ==
    /\ saPc = "align"
    /\ \E t \in SaTargetIds :
         /\ saTask[t].st = "reader"
         /\ IF saHasRdrs
            THEN /\ saPool[saTargets[t].batch] # <<>>
                 /\ saTask' = [saTask EXCEPT
                                  ![t] = [st  |-> "align",
                                          rdr |-> Head(saPool[saTargets[t].batch])]]
                 /\ saPool' = [saPool EXCEPT ![saTargets[t].batch] = Tail(@)]
                 /\ UNCHANGED saOpen
            ELSE /\ saOpen < saOpenCap
                 /\ saOpen' = saOpen + 1
                 /\ saTask' = [saTask EXCEPT
                                  ![t] = [st |-> "align", rdr |-> <<0, t>>]]
                 /\ UNCHANGED saPool
    /\ UNCHANGED <<saPc, saCPUs, saHasRdrs, saPool0, saOpen0, saOpenCap,
                   saLoops, saSearcher, saSTokens, saCh,
                   saChClosed, saHits, saCol, saDone,
                   saTargets, saNext, saTokens, saCh2,
                   saCh2Closed, saRs2>>
    /\ UNCHANGED notSearchAll

\* the HSPs are aligned; on each of the three ways out ("no valid
\* alignments", the aligned fraction below minAF, success) the reader goes
\* back to the pool, or is closed and its token taken from openFileTokens;
\* on the first two the task ends, on the last it goes on to send r
SaAlign ==
    /\ saPc = "align"
    /\ \E t \in SaTargetIds :
         /\ saTask[t].st = "align"
         /\ IF saHasRdrs
            THEN /\ saPool' = ReaderPutBack(saPool, saTargets[t].batch,
                                            saTask[t].rdr)
                 /\ UNCHANGED saOpen
            ELSE /\ saOpen' = saOpen - 1
                 /\ UNCHANGED saPool
         /\ IF saTargets[t].outcome = "ok"
            THEN /\ saTask' = [saTask EXCEPT ![t] = [st |-> "send", rdr |-> <<>>]]
                 /\ UNCHANGED saTokens
            ELSE /\ saTask' = [saTask EXCEPT ![t] = [st |-> "done", rdr |-> <<>>]]
                 /\ saTokens' = saTokens - 1
    /\ UNCHANGED <<saPc, saCPUs, saHasRdrs, saPool0, saOpen0, saOpenCap,
                   saLoops, saSearcher, saSTokens, saCh,
                   saChClosed, saHits, saCol, saDone,
                   saTargets, saNext, saCh2, saCh2Closed,
                   saRs2>>
    /\ UNCHANGED notSearchAll

\* "ch2 <- r" (a send on the closed channel panics), and the deferred
\* function gives the token back
SaSendResult ==
    /\ saPc \in {"align", "alignClosed"}
    /\ \E t \in SaTargetIds :
         /\ saTask[t].st = "send"
         /\ IF saCh2Closed
            THEN /\ saPc' = "panic"
                 /\ UNCHANGED <<saCh2, saTask, saTokens>>
            ELSE /\ saCh2 < saCPUs
                 /\ saCh2' = saCh2 + 1
                 /\ saTask' = [saTask EXCEPT ![t].st = "done"]
                 /\ saTokens' = saTokens - 1
                 /\ UNCHANGED saPc
    /\ UNCHANGED <<saCPUs, saHasRdrs, saPool, saPool0, saOpen, saOpen0,
                   saOpenCap, saLoops, saSearcher,
                   saSTokens, saCh, saChClosed, saHits,
                   saCol, saDone, saTargets, saNext,
                   saCh2Closed, saRs2>>
    /\ UNCHANGED notSearchAll

\* the second collector: "for r := range ch2 { *rs2 = append(*rs2, r)"
SaCollectHits ==
    /\ saPc \in {"align", "alignClosed"}
    /\ saCol[2] = "recv"
    /\ saCh2 > 0
    /\ saCh2' = saCh2 - 1
    /\ saRs2' = saRs2 + 1
    /\ UNCHANGED <<saPc, saCPUs, saHasRdrs, saPool, saPool0, saOpen, saOpen0,
                   saOpenCap, saLoops, saSearcher,
                   saSTokens, saCh, saChClosed, saHits,
                   saCol, saDone, saTargets, saNext,
                   saTask, saTokens, saCh2Closed>>
    /\ UNCHANGED notSearchAll

\* ch2 is closed and empty: the second collector is at "done <- 1"
SaCollectHitsEnd ==
    /\ saPc \in {"align", "alignClosed"}
    /\ saCol[2] = "recv"
    /\ saCh2 = 0
    /\ saCh2Closed
    /\ saCol' = [saCol EXCEPT ![2] = "signal"]
    /\ UNCHANGED <<saPc, saCPUs, saHasRdrs, saPool, saPool0, saOpen, saOpen0,
                   saOpenCap, saLoops, saSearcher,
                   saSTokens, saCh, saChClosed, saHits,
                   saDone, saTargets, saNext, saTask,
                   saTokens, saCh2, saCh2Closed, saRs2>>
    /\ UNCHANGED notSearchAll

\* "wg.Wait(); close(ch2)"
SaAlignJoin ==
    /\ saPc = "align"
    /\ saNext = Len(saTargets)
    /\ \A t \in SaTargetIds : saTask[t].st = "done"
    /\ saCh2Closed' = TRUE
    /\ saPc' = "alignClosed"
    /\ UNCHANGED <<saCPUs, saHasRdrs, saPool, saPool0, saOpen, saOpen0,
                   saOpenCap, saLoops, saSearcher,
                   saSTokens, saCh, saChClosed, saHits,
                   saCol, saDone, saTargets, saNext,
                   saTask, saTokens, saCh2, saRs2>>
    /\ UNCHANGED notSearchAll

\* "<-done", and the call returns
SaReturn ==
    /\ saPc = "alignClosed"
    /\ saCol[2] = "signal"
    /\ saCol' = [saCol EXCEPT ![2] = "done"]
    /\ saDone' = [saDone EXCEPT ![2] = @ + 1]
    /\ saPc' = "returned"
    /\ UNCHANGED <<saCPUs, saHasRdrs, saPool, saPool0, saOpen, saOpen0,
                   saOpenCap, saLoops, saSearcher,
                   saSTokens, saCh, saChClosed, saHits,
                   saTargets, saNext, saTask, saTokens,
                   saCh2, saCh2Closed, saRs2>>
    /\ UNCHANGED notSearchAll

NextSearchAll ==
    \/ SaFanOut \/ SaTokenAcquire \/ SaSearch \/ SaCollectSeeds
    \/ SaCollectSeedsEnd \/ SaSeedsJoin \/ SaSeedsDone \/ SaAlignStart
    \/ SaChain \/ SaTakeReader \/ SaAlign \/ SaSendResult \/ SaCollectHits
    \/ SaCollectHitsEnd \/ SaAlignJoin \/ SaReturn

\* every task that can take a step eventually takes one
SpecSearchAll ==
    InitSearchAll /\ [][NextSearchAll]_vars /\ WF_vars(NextSearchAll)

\* ---- what the claims about the tasks of Index.Search speak of

\* the alignment tasks that hold the reader rdr
HoldersOf(rdr) == {t \in SaTargetIds : saTask[t].rdr = rdr}

\* C26: every alignment task that takes a genome reader from its batch's
\* pool puts the same reader back exactly once before it ends, on each of
\* its ways out; after Search returns each pool holds as many readers as
\* before, and without pools every open-file token taken is released after
\* the reader is closed.
C26_ReadersPutBack ==
    saPc # "off" =>
        /\ \A t \in SaTargetIds :
              saTask[t].st # "align" => saTask[t].rdr = <<>>
        /\ saHasRdrs =>
              \A b \in DOMAIN saPool0 : \A j \in 1..Len(saPool0[b]) :
                  CountIn(saPool[b], saPool0[b][j])
                    + Cardinality(HoldersOf(saPool0[b][j])) = 1
        /\ \A b \in DOMAIN saPool : Len(saPool[b]) <= Len(saPool0[b])
        /\ ~saHasRdrs =>
              saOpen = saOpen0
                + Cardinality({t \in SaTargetIds : saTask[t].rdr # <<>>})
        /\ saPc = "returned" =>
              /\ \A b \in DOMAIN saPool : Len(saPool[b]) = Len(saPool0[b])
              /\ saOpen = saOpen0

\* a call with pooled readers has returned: of its two targets, both of
\* the first batch, one had no valid alignment and one was sent on
C26_Witness ==
    /\ saPc = "returned"
    /\ saHasRdrs
    /\ Len(saTargets) = 2
    /\ saTargets[1] = [batch |-> 1, outcome |-> "noalign"]
    /\ saTargets[2] = [batch |-> 1, outcome |-> "ok"]
    /\ saRs2 = 1

\* no task is about to send on a channel that is closed
SaNoSenderAfterClose ==
    /\ saChClosed => \A i \in DOMAIN saSearcher : saSearcher[i] = "done"
    /\ saCh2Closed => \A t \in SaTargetIds : saTask[t].st = "done"

\* every task the call has started is over
SaAllTasksOver ==
    /\ \A i \in DOMAIN saSearcher : saSearcher[i] = "done"
    /\ \A t \in SaTargetIds : saTask[t].st = "done"
    /\ \A c \in 1..2 : saCol[c] \in {"none", "done"}

\* each collector signals once on done
SaDoneOnce ==
    /\ \A c \in 1..2 : saDone[c] <= 1
    /\ saPc = "returned" =>
          \A c \in 1..2 : saDone[c] = (IF saCol[c] = "done" THEN 1 ELSE 0)

\* the task of target t waits for a reader / has got one
WaitsForReader(t) == t \in SaTargetIds /\ saTask[t].st = "reader"

HasReader(t) == t \in SaTargetIds /\ saTask[t].st = "align"

SearchTerminatesIfSearchersReturn ==
    /\ <>(saPc = "returned" \/ \E i \in DOMAIN saSearcher : ~SearchReturns(i))
    /\ [](saPc = "returned" => SaAllTasksOver)
    /\ [](saPc # "off" => SaNoSenderAfterClose /\ SaDoneOnce)
    /\ [](saPc # "off" => Cardinality(AlignTasksRunning) <= saCPUs)
    /\ \A t \in 1..MaxAlignTargets : WaitsForReader(t) ~> HasReader(t)

\* a task waits for the one reader of its batch, which another task holds
TaskWaitsForHeldReader ==
    /\ saHasRdrs
    /\ \E t, u \in SaTargetIds :
         /\ WaitsForReader(t)
         /\ HasReader(u)
         /\ saTargets[t].batch = saTargets[u].batch
         /\ saPool[saTargets[t].batch] = <<>>

\* the task of a searcher is inside a Search that does not return, all the
\* other tasks are over
SearcherNeverReturns ==
    /\ saPc = "seeds"
    /\ \E i \in DOMAIN saSearcher :
         /\ saSearcher[i] = "searching"
         /\ ~SearchReturns(i)
         /\ \A k \in DOMAIN saSearcher : k # i => saSearcher[k] = "done"

====
